---- MODULE Spec2Model ----
(***************************************************************************)
(* Catalog-driven SQL safety gateway of ai-analytics-service:              *)
(* catalog -> allowlist -> validateSql -> runSelect, and the two tool      *)
(* entry points (queryExecutorTool, sqlExecutorTool) that chain them.      *)
(*                                                                         *)
(* A JavaScript string is a sequence of one-character strings, so that the *)
(* regular expressions of the validator are modelled character by          *)
(* character.                                                              *)
(***************************************************************************)
EXTENDS Integers, Sequences, FiniteSets, TLC

\* ------------------------------------------------------------------------
\* Characters and strings
\* ------------------------------------------------------------------------

UpperChars == <<"A","B","C","D","E","F","G","H","I","J","K","L","M",
                "N","O","P","Q","R","S","T","U","V","W","X","Y","Z">>

LowerChars == <<"a","b","c","d","e","f","g","h","i","j","k","l","m",
                "n","o","p","q","r","s","t","u","v","w","x","y","z">>

DigitChars == {"0","1","2","3","4","5","6","7","8","9"}

UpperSet == {UpperChars[i] : i \in 1..26}

LowerSet == {LowerChars[i] : i \in 1..26}

LowerMap ==
  [c \in UpperSet |-> LowerChars[CHOOSE i \in 1..26 : UpperChars[i] = c]]

\* String.prototype.toLowerCase on one character
LowerChar(c) == IF c \in UpperSet THEN LowerMap[c] ELSE c

\* String.prototype.toLowerCase
ToLower(s) == [i \in 1..Len(s) |-> LowerChar(s[i])]

WordChars == UpperSet \cup LowerSet \cup DigitChars \cup {"_"}

IdentStartChars == UpperSet \cup LowerSet \cup {"_"}

\* \w of a JavaScript regular expression
IsWordChar(c) == c \in WordChars

\* [A-Za-z_] : the first character of an identifier token
IsIdentStart(c) == c \in IdentStartChars

\* \s of a JavaScript regular expression (the members the inputs use)
IsSpace(c) == c \in {" ", "\n", "\t"}

\* a line terminator: what '.' does not match and what '$' (flag m) stops at
IsLineEnd(c) == c = "\n"

\* the backtick character (a TLA+ string cannot hold one)
BT == "backtick"

\* s[i], or a non-word character outside the string
CharAt(s, i) == IF i >= 1 /\ i <= Len(s) THEN s[i] ELSE " "

\* \b between positions i and i+1
BoundaryAfter(s, i) == IsWordChar(CharAt(s, i)) # IsWordChar(CharAt(s, i + 1))

\* s.substring(i-1, i-1+Len(w)) === w
MatchAt(s, w, i) ==
  /\ i >= 1
  /\ i + Len(w) - 1 <= Len(s)
  /\ \A k \in 1..Len(w) : s[i + k - 1] = w[k]

\* String.prototype.includes
Includes(s, w) == \E i \in 1..(Len(s) + 1) : MatchAt(s, w, i)

\* String.prototype.startsWith
StartsWith(s, w) == MatchAt(s, w, 1)

\* /\bw\b/ matches at position i (w begins and ends with a word character)
WordAt(s, w, i) ==
  /\ MatchAt(s, w, i)
  /\ BoundaryAfter(s, i - 1)
  /\ BoundaryAfter(s, i + Len(w) - 1)

\* ------------------------------------------------------------------------
\* validator: normalize
\* ------------------------------------------------------------------------


\* the least and the greatest member of a non-empty set of numbers
Min(S) == CHOOSE x \in S : \A y \in S : x <= y

Max(S) == CHOOSE x \in S : \A y \in S : y <= x

\* the least member of a set of positions, or 0 when there is none
FirstIndex(hits) == IF hits = {} THEN 0 ELSE Min(hits)

\* the characters of the marked sequence m
Chars(m) == [i \in 1..Len(m) |-> m[i].c]

\* the characters of s at the positions i with keep[i], in order
Kept(s, keep) ==
  Chars(SelectSeq([i \in 1..Len(s) |-> [c |-> s[i], keep |-> keep[i]]],
                  LAMBDA r : r.keep))

\* position i lies in a match of /--.*$/m : '--' starts at some j <= i of the
\* same line (the leftmost '--' of a line starts the match)
InLineComment(s, i) ==
  \E j \in 1..i :
    /\ s[j] = "-"
    /\ CharAt(s, j + 1) = "-"
    /\ \A k \in j..i : ~IsLineEnd(s[k])

\* .replace(/--.*$/gm, '')
StripLineComments(s) == Kept(s, [i \in 1..Len(s) |-> ~InLineComment(s, i)])

\* the first position k >= i with s[k..k+1] = "*/", or 0
BlockCloseFrom(s, i) ==
  FirstIndex({k \in i..(Len(s) - 1) : s[k] = "*" /\ s[k + 1] = "/"})

\* the first position j >= i where /\/\*[\s\S]*?\*\// matches, or 0
BlockOpenFrom(s, i) ==
  FirstIndex({j \in i..(Len(s) - 1) :
                s[j] = "/" /\ s[j + 1] = "*" /\ BlockCloseFrom(s, j + 2) # 0})

RECURSIVE StripBlockComments(_, _)
RECURSIVE StripFirstBlock(_, _, _)
\* the text from position i on without the comment that opens at j (0: none)
StripFirstBlock(s, i, j) ==
  IF j = 0 THEN SubSeq(s, i, Len(s))
  ELSE SubSeq(s, i, j - 1) \o StripBlockComments(s, BlockCloseFrom(s, j + 2) + 2)

\* .replace(/\/\*[\s\S]*?\*\//g, '') from position i on
StripBlockComments(s, i) == StripFirstBlock(s, i, BlockOpenFrom(s, i))

\* .replace(/\s+/g, ' ') : the first character of each run stays, as a blank
CollapseSpaces(s) ==
  Kept([i \in 1..Len(s) |-> IF IsSpace(s[i]) THEN " " ELSE s[i]],
       [i \in 1..Len(s) |-> ~(IsSpace(s[i]) /\ i > 1 /\ IsSpace(s[i - 1]))])

\* the characters of s at the positions from the first to the last of keep
Between(s, keep) == IF keep = {} THEN <<>> ELSE SubSeq(s, Min(keep), Max(keep))

\* String.prototype.trim
Trim(s) == Between(s, {i \in 1..Len(s) : ~IsSpace(s[i])})


normalize(sql) ==
  Trim(CollapseSpaces(StripBlockComments(StripLineComments(sql), 1)))

lower(sql) == ToLower(sql)

\* ------------------------------------------------------------------------
\* validator: the gates
\* ------------------------------------------------------------------------

FORBIDDEN_KEYWORDS ==
  <<<<"i","n","s","e","r","t">>,
    <<"u","p","d","a","t","e">>,
    <<"d","e","l","e","t","e">>,
    <<"d","r","o","p">>,
    <<"a","l","t","e","r">>,
    <<"c","r","e","a","t","e">>,
    <<"t","r","u","n","c","a","t","e">>,
    <<"o","p","t","i","m","i","z","e">>,
    <<"a","t","t","a","c","h">>,
    <<"d","e","t","a","c","h">>,
    <<"g","r","a","n","t">>,
    <<"r","e","v","o","k","e">>,
    <<"s","y","s","t","e","m">>,
    <<"k","i","l","l">>,
    <<"s","e","t">>,
    <<"u","s","e">>,
    <<"s","h","o","w">>,
    <<"d","e","s","c","r","i","b","e">>,
    <<"e","x","p","l","a","i","n">>>>

kwSelect == <<"s","e","l","e","c","t">>

kwWith == <<"w","i","t","h">>

kwFrom == <<"f","r","o","m">>

hasMultiStatement(sql) == Includes(sql, <<";">>)

\* a test of the first word that would not ask for the space behind it
startsWithSelectOrWithNoSpace(sqlLower) ==
  \/ StartsWith(sqlLower, kwSelect)
  \/ StartsWith(sqlLower, kwWith)

startsWithSelectOrWith(sqlLower) ==
  \/ StartsWith(sqlLower, kwSelect \o <<" ">>)
  \/ StartsWith(sqlLower, kwWith \o <<" ">>)


\* new RegExp(`\\b${kw}\\b`, 'i').test(sqlLower)
KeywordIn(sqlLower, kw) == \E i \in 1..Len(sqlLower) : WordAt(sqlLower, kw, i)

\* FORBIDDEN_KEYWORDS[k] for the least k of hits, or <<>> (null)
FirstKeyword(hits) == IF hits = {} THEN <<>> ELSE FORBIDDEN_KEYWORDS[Min(hits)]

\* the first keyword of the list that occurs as a word, or <<>> (null)
containsForbidden(sqlLower) ==
  FirstKeyword({k \in 1..Len(FORBIDDEN_KEYWORDS) :
                  KeywordIn(sqlLower, FORBIDDEN_KEYWORDS[k])})


\* the position after the run of whitespace that starts at i
SpacesEnd(s, i) == Min({j \in i..(Len(s) + 1) : ~IsSpace(CharAt(s, j)) \/ j > Len(s)})

\* /\bselect\b\s+\*/ on the lower-cased text
SelectStarIn(l) ==
  \E i \in 1..Len(l) :
    /\ WordAt(l, kwSelect, i)
    /\ SpacesEnd(l, i + 6) > i + 6
    /\ CharAt(l, SpacesEnd(l, i + 6)) = "*"

\* /\bselect\b\s+\*/i.test(normalized)
hasSelectStar(normalized) == SelectStarIn(ToLower(normalized))

\* [`"\w.] : a character of the table reference after FROM
IsTableRefChar(c) == IsWordChar(c) \/ c \in {BT, "\"", "."}


\* the position after the run of table-reference characters that starts at i
TableRefEnd(s, i) == Min({j \in i..(Len(s) + 1) : ~IsTableRefChar(CharAt(s, j))})

\* the ends j of a match of ([`"\w.]+)\b for a group that starts at g
TableRefEnds(s, g) ==
  {j \in g..(TableRefEnd(s, g) - 1) : BoundaryAfter(s, j)}


\* the positions i where /\bfrom\b\s+([`"\w.]+)\b/ matches; l is s in lower case
FromMatchesIn(s, l) ==
  {i \in 1..Len(s) :
     /\ WordAt(l, kwFrom, i)
     /\ SpacesEnd(s, i + 4) > i + 4
     /\ TableRefEnds(s, SpacesEnd(s, i + 4)) # {}}

\* the positions i where /\bfrom\b\s+([`"\w.]+)\b/i matches
FromMatches(s) == FromMatchesIn(s, ToLower(s))

\* the group that starts at g: it is greedy, so it ends at the last boundary
TableRefAt(s, g) == SubSeq(s, g, Max(TableRefEnds(s, g)))

\* m[1] of the leftmost of the matches ms, or <<>> (null)
FirstTableRef(s, ms) ==
  IF ms = {} THEN <<>> ELSE TableRefAt(s, SpacesEnd(s, Min(ms) + 4))

extractFromTable(normalizedSql) ==
  FirstTableRef(normalizedSql, FromMatches(normalizedSql))

\* t.replace(/["`]/g, '')
stripQuotesTable(t) == SelectSeq(t, LAMBDA c : c \notin {"\"", BT})

\* ------------------------------------------------------------------------
\* validator: findReferencedColumns
\* ------------------------------------------------------------------------

stop ==
  {<<"s","e","l","e","c","t">>,
   <<"f","r","o","m">>,
   <<"w","h","e","r","e">>,
   <<"g","r","o","u","p">>,
   <<"b","y">>,
   <<"o","r","d","e","r">>,
   <<"l","i","m","i","t">>,
   <<"w","i","t","h">>,
   <<"a","s">>,
   <<"a","n","d">>,
   <<"o","r">>,
   <<"n","o","t">>,
   <<"i","n">>,
   <<"i","s">>,
   <<"n","u","l","l">>,
   <<"a","s","c">>,
   <<"d","e","s","c">>,
   <<"d","i","s","t","i","n","c","t">>,
   <<"s","u","m">>,
   <<"a","v","g">>,
   <<"m","i","n">>,
   <<"m","a","x">>,
   <<"c","o","u","n","t">>,
   <<"d","a","t","e">>,
   <<"t","o","D","a","t","e">>,
   <<"t","o","S","t","a","r","t","O","f","W","e","e","k">>,
   <<"h","a","v","i","n","g">>,
   <<"c","a","s","e">>,
   <<"w","h","e","n">>,
   <<"t","h","e","n">>,
   <<"e","l","s","e">>,
   <<"e","n","d">>,
   <<"o","n">>,
   <<"j","o","i","n">>,
   <<"i","n","n","e","r">>,
   <<"l","e","f","t">>,
   <<"r","i","g","h","t">>,
   <<"f","u","l","l">>,
   <<"c","r","o","s","s">>}


\* the position after the run of [A-Za-z0-9_] that starts at i
IdentEnd(s, i) == Min({j \in i..(Len(s) + 1) : ~IsWordChar(CharAt(s, j))})

\* the token that starts at i ends before e, or takes one dotted part more
DottedEnd(s, e) ==
  IF CharAt(s, e) = "." /\ e < Len(s) /\ IsIdentStart(CharAt(s, e + 1))
    THEN IdentEnd(s, e + 2)
    ELSE e

\* the position after the token that starts at i:
\* [A-Za-z_][A-Za-z0-9_]*(?:\.[A-Za-z_][A-Za-z0-9_]*)?

TokenEnd(s, i) == DottedEnd(s, IdentEnd(s, i + 1))

\* the first position j >= i where a token starts, or 0
TokenStartFrom(s, i) == FirstIndex({j \in i..Len(s) : IsIdentStart(s[j])})

RECURSIVE Tokens(_, _)
RECURSIVE TokensAt(_, _, _)
\* the token that starts at i and ends before e, and the tokens after it
TokensAt(s, i, e) ==
  IF i = 0 THEN <<>> ELSE <<SubSeq(s, i, e - 1)>> \o Tokens(s, e)

\* normalizedSql.match(/.../g) || [] from position i on
Tokens(s, i) == TokensAt(s, TokenStartFrom(s, i), TokenEnd(s, TokenStartFrom(s, i)))

\* the first position j >= i holding sep, or 0
SepFrom(s, i, seps) == FirstIndex({j \in i..Len(s) : s[j] \in seps})

RECURSIVE SplitFrom(_, _, _)
RECURSIVE SplitAt(_, _, _, _)
\* the part from i to the separator at j (0: to the end), and the parts after
SplitAt(s, i, j, seps) ==
  IF j = 0 THEN <<SubSeq(s, i, Len(s))>>
  ELSE <<SubSeq(s, i, j - 1)>> \o SplitFrom(s, j + 1, seps)

SplitFrom(s, i, seps) == SplitAt(s, i, SepFrom(s, i, seps), seps)

\* s.split('.')
Split(s) == SplitFrom(s, 1, {"."})

Range(q) == {q[i] : i \in 1..Len(q)}

\* Array.prototype.includes on a sequence
SeqIncludes(q, x) == \E i \in 1..Len(q) : q[i] = x

\* Set.prototype.add : insertion order, no duplicates
SetAdd(q, x) == IF SeqIncludes(q, x) THEN q ELSE Append(q, x)


\* the tests of the loop body on the lower-cased token l
SkipLower(l, tokParts, fromTableStripped, fromParts) ==
  \/ l \in stop
  \/ SeqIncludes(FORBIDDEN_KEYWORDS, l)
  \/ \E k \in 1..Len(tokParts) : SeqIncludes(fromParts, tokParts[k])
  \/ /\ Len(fromParts) > 1
     /\ Len(tokParts) > 1
     /\ l = fromTableStripped

SkipLowerToken(l, fromTableStripped, fromParts) ==
  SkipLower(l, Split(l), fromTableStripped, fromParts)

\* the loop body's decision for one token: TRUE when the token is skipped
SkipToken(tok, fromTableStripped, fromParts) ==
  SkipLowerToken(ToLower(tok), fromTableStripped, fromParts)


Last(q) == q[Len(q)]

\* tok.includes('.') ? tok.split('.').pop() : tok
LastSegment(tok) == Last(Split(tok))

RECURSIVE CollectColumns(_, _, _, _, _)
CollectColumns(tokens, k, fromTableStripped, fromParts, cols) ==
  IF k > Len(tokens) THEN cols
  ELSE CollectColumns(tokens, k + 1, fromTableStripped, fromParts,
         IF SkipToken(tokens[k], fromTableStripped, fromParts)
           THEN cols
           ELSE SetAdd(cols, LastSegment(tokens[k])))


\* fromTableStripped.split('.').map(p => p.trim()).filter(Boolean)
FromParts(fromTableStripped) ==
  SelectSeq(Split(fromTableStripped), LAMBDA p : Trim(p) # <<>>)

ReferencedColumns(normalizedSql, fromTableStripped) ==
  CollectColumns(Tokens(normalizedSql, 1), 1, fromTableStripped,
                 FromParts(fromTableStripped), <<>>)

\* the referenced columns, in insertion order
findReferencedColumns(normalizedSql, fromTable) ==
  ReferencedColumns(normalizedSql, ToLower(stripQuotesTable(fromTable)))

\* ------------------------------------------------------------------------
\* validator: validateSql
\* ------------------------------------------------------------------------

\* throw new SqlValidationError(message + detail)
SqlValidationError(message, detail) ==
  [ok |-> FALSE, error |-> message, detail |-> detail,
   table |-> <<>>, referencedColumns |-> <<>>]

\* return { table, referencedColumns }
Validated(table, referencedColumns) ==
  [ok |-> TRUE, error |-> "", detail |-> <<>>,
   table |-> table, referencedColumns |-> referencedColumns]


\* a lookup that would take table names for equal whatever their letter case
FindAllowedTableAnyCase(allowlist, fromTableStripped) ==
  FirstIndex({k \in 1..Len(allowlist.tables) :
                ToLower(stripQuotesTable(allowlist.tables[k].key))
                  = ToLower(fromTableStripped)})

\* Array.from(allowlist.tables.keys()).find(t => stripQuotesTable(t) === stripped)
\* as an index into the tables, or 0 (undefined)
FindAllowedTable(allowlist, fromTableStripped) ==
  FirstIndex({k \in 1..Len(allowlist.tables) :
                stripQuotesTable(allowlist.tables[k].key) = fromTableStripped})

\* the first referenced column that is not allowed, as an index, or 0
FirstBadColumn(referenced, allowedCols) ==
  FirstIndex({k \in 1..Len(referenced) : referenced[k] \notin allowedCols})

\* lines 180-186: the loop over the referenced columns, and the return
CheckColumns(allowedTable, referenced, badCol) ==
  IF badCol # 0
    THEN SqlValidationError("Column is not allowlisted: ", referenced[badCol])
    ELSE Validated(allowedTable, referenced)

\* lines 174-186, for the allowlist entry of the matched table
ValidateColumns(tableEntry, referenced) ==
  CheckColumns(tableEntry.key, referenced,
               FirstBadColumn(referenced, tableEntry.cols))

\* lines 170-186, allowedTable an index into the tables or 0
ValidateTable(normalized, fromTableRaw, allowedTable, allowlist) ==
  IF allowedTable = 0
    THEN SqlValidationError("Table is not allowlisted: ", fromTableRaw)
    ELSE ValidateColumns(allowlist.tables[allowedTable],
                         findReferencedColumns(normalized, fromTableRaw))

\* lines 164-186
ValidateFrom(normalized, fromTableRaw, allowlist) ==
  IF fromTableRaw = <<>>
    THEN SqlValidationError("FROM clause not found.", <<>>)
    ELSE ValidateTable(normalized, fromTableRaw,
                       FindAllowedTable(allowlist, stripQuotesTable(fromTableRaw)),
                       allowlist)

\* lines 157-186
ValidateProjection(normalized, forbidden, allowlist) ==
  IF forbidden # <<>>
    THEN SqlValidationError("Forbidden keyword detected: ", forbidden)
  ELSE IF hasSelectStar(normalized)
    THEN SqlValidationError("SELECT * is not allowed. Specify columns explicitly.", <<>>)
  ELSE ValidateFrom(normalized, extractFromTable(normalized), allowlist)

\* a validator that would look for forbidden keywords before anything else
ValidateNormalizedKeywordsFirst(normalized, sqlLower, allowlist) ==
  IF normalized # <<>> /\ containsForbidden(sqlLower) # <<>>
    THEN SqlValidationError("Forbidden keyword detected: ",
                            containsForbidden(sqlLower))
  ELSE IF normalized = <<>>
    THEN SqlValidationError("SQL is empty.", <<>>)
  ELSE IF hasMultiStatement(normalized)
    THEN SqlValidationError("Multi-statement SQL is not allowed.", <<>>)
  ELSE IF ~startsWithSelectOrWith(sqlLower)
    THEN SqlValidationError("Only SELECT queries are allowed.", <<>>)
  ELSE ValidateProjection(normalized, containsForbidden(sqlLower), allowlist)

\* lines 152-186
ValidateNormalized(normalized, sqlLower, allowlist) ==
  IF normalized = <<>>
    THEN SqlValidationError("SQL is empty.", <<>>)
  ELSE IF hasMultiStatement(normalized)
    THEN SqlValidationError("Multi-statement SQL is not allowed.", <<>>)
  ELSE IF ~startsWithSelectOrWith(sqlLower)
    THEN SqlValidationError("Only SELECT queries are allowed.", <<>>)
  ELSE ValidateProjection(normalized, containsForbidden(sqlLower), allowlist)

ValidateLower(normalized, allowlist) ==
  ValidateNormalized(normalized, lower(normalized), allowlist)

validateSql(sql, allowlist) == ValidateLower(normalize(sql), allowlist)

\* ------------------------------------------------------------------------
\* allowlist
\* ------------------------------------------------------------------------

\* a Map whose set() would keep the value a key already has
MapSetKeepingFirst(m, key, value) ==
  IF \E k \in 1..Len(m) : m[k].key = key
    THEN m
    ELSE Append(m, [key |-> key, value |-> value])

\* Map.prototype.set : a new key goes last, an existing key keeps its place
MapSet(m, key, value) ==
  IF \E k \in 1..Len(m) : m[k].key = key
    THEN [k \in 1..Len(m) |->
            IF m[k].key = key THEN [key |-> key, value |-> value] ELSE m[k]]
    ELSE Append(m, [key |-> key, value |-> value])

\* Object.keys(m.columns || {})
ColumnKeys(m) == [k \in 1..Len(m.columns) |-> m.columns[k].key]

\* a resolution that would prefer schema and name to relation_name
TableOfSchemaFirst(m) ==
  IF m.schema # <<>>
    THEN <<BT>> \o m.schema \o <<BT, ".", BT>> \o m.name \o <<BT>>
  ELSE IF m.relation_name # <<>> /\ Trim(m.relation_name) # <<>>
    THEN Trim(m.relation_name)
  ELSE <<BT>> \o m.name \o <<BT>>

\* (m.relation_name && m.relation_name.trim()) ||
\* (m.schema ? `\`${m.schema}\`.\`${m.name}\`` : `\`${m.name}\``)
TableOf(m) ==
  IF m.relation_name # <<>> /\ Trim(m.relation_name) # <<>>
    THEN Trim(m.relation_name)
  ELSE IF m.schema # <<>>
    THEN <<BT>> \o m.schema \o <<BT, ".", BT>> \o m.name \o <<BT>>
  ELSE <<BT>> \o m.name \o <<BT>>


\* the Map of tables as the sequence of its entries
TableEntries(tables) ==
  [i \in 1..Len(tables) |-> [key |-> tables[i].key, cols |-> tables[i].value]]

\* a loop body that would add the columns to those the table already has
AddModelMerging(m, table, list) ==
  [tables |->
     MapSet(list.tables, table,
            Range(ColumnKeys(m))
              \cup UNION {list.tables[k].value :
                            k \in {k \in 1..Len(list.tables) :
                                     list.tables[k].key = table}}),
   modelToTable |-> MapSet(list.modelToTable, m.name, table)]

\* the body of the loop for model m, whose table identity is table
AddModel(m, table, list) ==
  [tables |-> MapSet(list.tables, table, Range(ColumnKeys(m))),
   modelToTable |-> MapSet(list.modelToTable, m.name, table)]

RECURSIVE BuildFrom(_, _, _)
BuildFrom(models, k, list) ==
  IF k > Len(models)
    THEN [tables |-> TableEntries(list.tables), modelToTable |-> list.modelToTable]
    ELSE BuildFrom(models, k + 1, AddModel(models[k], TableOf(models[k]), list))


buildAllowlist(catalog) ==
  BuildFrom(catalog.models, 1, [tables |-> <<>>, modelToTable |-> <<>>])

\* ------------------------------------------------------------------------
\* catalog document and loadAiCatalog
\* ------------------------------------------------------------------------

\* one entry of AiCatalogModel.columns; <<>> is an absent or empty string
Column(key, description, data_type, metaType) ==
  [key |-> key, description |-> description,
   data_type |-> data_type, metaType |-> metaType]

\* AiCatalogModel; columns, dimensions and metrics keep the document's order
Model(name, description, domain, grain, schema, relation_name, dimensions, metrics, columns) ==
  [name |-> name, description |-> description, domain |-> domain,
   grain |-> grain, schema |-> schema, relation_name |-> relation_name,
   dimensions |-> dimensions, metrics |-> metrics, columns |-> columns]

\* the file ai_catalog.json: readable or not, and the models it holds
CatalogFile(models) == [readable |-> TRUE, models |-> models]

MissingFile == [readable |-> FALSE, models |-> <<>>]

\* fs.readFileSync / JSON.parse throw on a missing file; an empty models
\* list throws 'ai_catalog.json invalid or empty'
loadAiCatalog(file) ==
  IF ~file.readable
    THEN [ok |-> FALSE, message |-> "ENOENT", catalog |-> [models |-> <<>>]]
  ELSE IF Len(file.models) = 0
    THEN [ok |-> FALSE, message |-> "ai_catalog.json invalid or empty",
          catalog |-> [models |-> <<>>]]
  ELSE [ok |-> TRUE, message |-> "", catalog |-> [models |-> file.models]]

\* ------------------------------------------------------------------------
\* catalog search
\* ------------------------------------------------------------------------


\* s.split(/\s+/) : the text is split at the first blank of every run
Words(s) == SplitFrom(CollapseSpaces(s), 1, {" "})

\* name.includes(word) || word.includes(name) for some query word
Overlaps(n, queryWords) ==
  \E w \in 1..Len(queryWords) :
    Includes(n, queryWords[w]) \/ Includes(queryWords[w], n)

\* the number of names of the list that overlap some query word
RECURSIVE CountOverlaps(_, _, _)
CountOverlaps(names, k, queryWords) ==
  IF k > Len(names) THEN 0
  ELSE (IF Overlaps(ToLower(names[k]), queryWords) THEN 1 ELSE 0)
       + CountOverlaps(names, k + 1, queryWords)

\* the descriptions of the columns that have one
ColumnDescriptions(model) ==
  LET d == [k \in 1..Len(model.columns) |-> model.columns[k].description]
  IN SelectSeq(d, LAMBDA x : x # <<>>)


\* descLower.includes(queryLower) || queryWords.some(w => descLower.includes(w))
DescriptionMatch(descLower, queryLower, queryWords) ==
  \/ Includes(descLower, queryLower)
  \/ \E w \in 1..Len(queryWords) : Includes(descLower, queryWords[w])

DescriptionHit(model, queryLower, queryWords) ==
  /\ model.description # <<>>
  /\ DescriptionMatch(ToLower(model.description), queryLower, queryWords)

GrainMatch(grainLower, queryLower) ==
  Includes(queryLower, grainLower) \/ Includes(grainLower, queryLower)

GrainHit(model, queryLower) ==
  /\ model.grain # <<>>
  /\ GrainMatch(ToLower(model.grain), queryLower)

DomainHit(model, queryLower) ==
  /\ model.domain # <<>>
  /\ Includes(queryLower, ToLower(model.domain))

\* a score that would credit every field once, whatever the number of matches
ScoredOncePerField(desc, nMetrics, nDims, grain, domain, nCols) ==
  [score |-> (IF desc THEN 10 ELSE 0) + (IF nMetrics > 0 THEN 5 ELSE 0)
             + (IF nDims > 0 THEN 3 ELSE 0)
             + (IF grain THEN 4 ELSE 0) + (IF domain THEN 2 ELSE 0)
             + (IF nCols > 0 THEN 2 ELSE 0),
   matchedFields |->
     (IF desc THEN <<"description">> ELSE <<>>)
     \o (IF nMetrics > 0 THEN <<"metrics">> ELSE <<>>)
     \o (IF nDims > 0 THEN <<"dimensions">> ELSE <<>>)
     \o (IF grain THEN <<"grain">> ELSE <<>>)
     \o (IF domain THEN <<"domain">> ELSE <<>>)
     \o (IF nCols > 0 THEN <<"columns">> ELSE <<>>)]

\* the score and the matched fields, from what each field contributed
Scored(desc, nMetrics, nDims, grain, domain, nCols) ==
  [score |-> (IF desc THEN 10 ELSE 0) + 5 * nMetrics + 3 * nDims
             + (IF grain THEN 4 ELSE 0) + (IF domain THEN 2 ELSE 0)
             + 2 * nCols,
   matchedFields |->
     (IF desc THEN <<"description">> ELSE <<>>)
     \o (IF nMetrics > 0 THEN <<"metrics">> ELSE <<>>)
     \o (IF nDims > 0 THEN <<"dimensions">> ELSE <<>>)
     \o (IF grain THEN <<"grain">> ELSE <<>>)
     \o (IF domain THEN <<"domain">> ELSE <<>>)
     \o (IF nCols > 0 THEN <<"columns">> ELSE <<>>)]

ScoreWords(model, queryLower, queryWords) ==
  Scored(DescriptionHit(model, queryLower, queryWords),
         CountOverlaps(model.metrics, 1, queryWords),
         CountOverlaps(model.dimensions, 1, queryWords),
         GrainHit(model, queryLower),
         DomainHit(model, queryLower),
         CountOverlaps(ColumnDescriptions(model), 1, queryWords))

ScoreLower(model, queryLower) == ScoreWords(model, queryLower, Words(queryLower))

calculateRelevanceScore(model, query) == ScoreLower(model, ToLower(query))


\* results.sort((a, b) => b.relevanceScore - a.relevanceScore) is stable:
\* r goes after the n results whose score is at least its own
InsertAfter(sorted, n, r) ==
  SubSeq(sorted, 1, n) \o <<r>> \o SubSeq(sorted, n + 1, Len(sorted))

\* a sort that would put a result before the results of its own score
InsertBeforeTies(sorted, r) ==
  InsertAfter(sorted,
              Cardinality({k \in 1..Len(sorted) :
                             sorted[k].relevanceScore > r.relevanceScore}),
              r)

InsertByScore(sorted, r) ==
  InsertAfter(sorted,
              Cardinality({k \in 1..Len(sorted) :
                             sorted[k].relevanceScore >= r.relevanceScore}),
              r)

\* the body of the loop of searchCatalog for one model and its score s
Scoring(model, s, results) ==
  IF s.score > 0
    THEN InsertByScore(results,
           [model |-> model, relevanceScore |-> s.score,
            matchedFields |-> s.matchedFields])
    ELSE results

RECURSIVE SearchFrom(_, _, _, _)
SearchFrom(models, k, query, results) ==
  IF k > Len(models) THEN results
  ELSE SearchFrom(models, k + 1, query,
         Scoring(models[k], calculateRelevanceScore(models[k], query), results))

\* searchCatalog after its loadAiCatalog() succeeded
searchCatalog(catalog, query) == SearchFrom(catalog.models, 1, query, <<>>)

\* ------------------------------------------------------------------------
\* SQL generation (queryExecutorTool.execute, step 2)
\* ------------------------------------------------------------------------

\* model.columns[name] is defined
HasColumn(model, name) ==
  \E k \in 1..Len(model.columns) : model.columns[k].key = name


ColumnInfo(model, name) ==
  model.columns[CHOOSE k \in 1..Len(model.columns) : model.columns[k].key = name]

RECURSIVE Join(_, _)
\* Array.prototype.join
Join(parts, sep) ==
  IF Len(parts) = 0 THEN <<>>
  ELSE IF Len(parts) = 1 THEN parts[1]
  ELSE parts[1] \o sep \o Join(Tail(parts), sep)

\* `${aggregation}(${metric}) AS ${metric}`
Aggregated(aggregation, col) ==
  aggregation \o <<"(">> \o col \o <<")"," ","A","S"," ">> \o col


\* colMeta?.type === 'metric' && (name has 'total' || name has 'sum')
IsSum(metaType, metricLower) ==
  /\ metaType = <<"m","e","t","r","i","c">>
  /\ Includes(metricLower, <<"t","o","t","a","l">>) \/ Includes(metricLower, <<"s","u","m">>)

\* the aggregation chosen for a metric column
AggregationOf(model, metric) ==
  IF IsSum(ColumnInfo(model, metric).metaType, ToLower(metric))
    THEN <<"s","u","m">> ELSE <<"a","v","g">>

\* the dimensions that are keys of columns, in list order
SelectedDimensions(model) ==
  SelectSeq(model.dimensions, LAMBDA d : HasColumn(model, d))


AggregateAll(model, ms) ==
  [k \in 1..Len(ms) |-> Aggregated(AggregationOf(model, ms[k]), ms[k])]

\* the metrics that are keys of columns, aggregated, in list order
SelectedMetrics(model) ==
  AggregateAll(model, SelectSeq(model.metrics, LAMBDA m : HasColumn(model, m)))


NumericName(typeLower) == Includes(typeLower, <<"f","l","o","a","t">>) \/ Includes(typeLower, <<"i","n","t">>)

LooksNumeric(data_type) == NumericName(ToLower(data_type))

\* what the fallback loop pushes for one column
FallbackPart(col, dimensions) ==
  IF LooksNumeric(col.data_type) THEN <<Aggregated(<<"a","v","g">>, col.key)>>
  ELSE IF SeqIncludes(dimensions, col.key) THEN <<col.key>>
  ELSE <<>>

RECURSIVE FallbackParts(_, _)
\* the loop over Object.entries(model.columns), taken when selectParts is empty
FallbackParts(model, k) ==
  IF k > Len(model.columns) THEN <<>>
  ELSE FallbackPart(model.columns[k], model.dimensions) \o FallbackParts(model, k + 1)

PartsOrFallback(model, listed) ==
  IF Len(listed) = 0 THEN FallbackParts(model, 1) ELSE listed

selectParts(model) ==
  PartsOrFallback(model, SelectedDimensions(model) \o SelectedMetrics(model))

\* a generator that would group by every listed dimension
groupByPartsListed(model) == model.dimensions

groupByParts(model) == SelectedDimensions(model)

\* lines 86-97: the text of the query
SqlText(model, parts, groupBy) ==
  <<"S","E","L","E","C","T"," ">> \o Join(parts, <<","," ">>)
  \o <<"\n","F","R","O","M"," ">> \o model.relation_name
  \o (IF Len(groupBy) > 0 THEN <<"\n","G","R","O","U","P"," ","B","Y"," ">> \o Join(groupBy, <<","," ">>) ELSE <<>>)
  \o (IF Len(groupBy) > 0 THEN <<"\n","O","R","D","E","R"," ","B","Y"," ">> \o groupBy[1]
      ELSE IF Len(model.metrics) > 0
        THEN <<"\n","O","R","D","E","R"," ","B","Y"," ">> \o model.metrics[1] \o <<" ","D","E","S","C">>
      ELSE <<>>)

GeneratedSql(model) == SqlText(model, selectParts(model), groupByParts(model))

\* ------------------------------------------------------------------------
\* the objects the tools return
\* ------------------------------------------------------------------------

NoValidation == SqlValidationError("", <<>>)

Failure(error, message, detail) ==
  [success |-> FALSE, error |-> error, message |-> message, detail |-> detail,
   validation |-> NoValidation, rowCount |-> 0]

Success(validation, rowCount) ==
  [success |-> TRUE, error |-> "", message |-> "", detail |-> <<>>,
   validation |-> validation, rowCount |-> rowCount]

NoResult == Failure("", "", <<>>)

NoAllowlist == [tables |-> <<>>, modelToTable |-> <<>>]

\* no query execution was started
NoBackend == [state |-> "", reason |-> <<>>, dataRows |-> 0]

\* no invocation of runAthenaSelect is in flight
NoAthena ==
  [maxRows |-> 0, maxExecutionTimeSeconds |-> 0, elapsed |-> 0, rows |-> <<>>,
   nextToken |-> 0, outcome |-> "", message |-> "", detail |-> <<>>]

\* the options both tools pass to runSelect
maxRows == 10000

maxExecutionTimeSeconds == 30

ValidateCall(sqlText, v) == [op |-> "validateSql", sql |-> sqlText, ok |-> v.ok,
                             maxRows |-> 0, maxExecutionTimeSeconds |-> 0]

\* a call of runSelect that would leave the caps to the client's defaults
RunSelectCallUncapped(sqlText) == [op |-> "runSelect", sql |-> sqlText, ok |-> TRUE,
                                   maxRows |-> 0, maxExecutionTimeSeconds |-> 0]

RunSelectCall(sqlText) == [op |-> "runSelect", sql |-> sqlText, ok |-> TRUE,
                           maxRows |-> maxRows,
                           maxExecutionTimeSeconds |-> maxExecutionTimeSeconds]

\* ------------------------------------------------------------------------
\* state
\* ------------------------------------------------------------------------

VARIABLES
  catalogFile,     \* the catalog document on disk, read by every loadAiCatalog()
  pc,              \* where the tool invocation in flight stands
  entry,           \* "query" (queryExecutorTool), "sql" (sqlExecutorTool) or "none"
  query,           \* params.query
  catalogResults,  \* what searchCatalog returned
  sql,             \* params.sql, or the generated query
  allowlist,       \* what buildAllowlist returned
  validation,      \* what validateSql returned or threw
  calls,           \* the calls of validateSql and runSelect of this invocation
  result,          \* the object the tool returned
  backend,         \* the query execution of the submit-then-poll backend
  athena           \* the locals of the runAthenaSelect invocation in flight

vars == <<catalogFile, pc, entry, query, catalogResults, sql, allowlist,
          validation, calls, result, backend, athena>>

\* ------------------------------------------------------------------------
\* the synchronous stretch from validation to the call of runSelect
\* (query-executor.ts 99-108, sql-executor 15-26)
\* ------------------------------------------------------------------------

\* what the stretch leaves behind: the next pc and the values it assigned
Step(nextPc, sqlText, list, v, newCalls, res) ==
  [pc |-> nextPc, sql |-> sqlText, allowlist |-> list, validation |-> v,
   calls |-> newCalls, result |-> res]

Returned(sqlText, res) == Step("done", sqlText, NoAllowlist, NoValidation, <<>>, res)


\* a tool that would call runSelect whatever validateSql said
AfterValidationUngated(sqlText, list, v) ==
  Step("executing", sqlText, list, v,
       <<ValidateCall(sqlText, v), RunSelectCall(sqlText)>>, NoResult)

\* a tool whose catch block would not tell a rejection from other errors
AfterValidationAsExecutionError(sqlText, list, v) ==
  IF ~v.ok
    THEN Step("done", sqlText, list, v, <<ValidateCall(sqlText, v)>>,
              Failure("EXECUTION_ERROR", v.error, v.detail))
    ELSE Step("executing", sqlText, list, v,
              <<ValidateCall(sqlText, v), RunSelectCall(sqlText)>>, NoResult)

\* lines 103-108: validateSql has returned or thrown v
AfterValidation(sqlText, list, v) ==
  IF ~v.ok
    THEN Step("done", sqlText, list, v, <<ValidateCall(sqlText, v)>>,
              Failure("SQL_VALIDATION_ERROR", v.error, v.detail))
    ELSE Step("executing", sqlText, list, v,
              <<ValidateCall(sqlText, v), RunSelectCall(sqlText)>>, NoResult)

ValidateWith(sqlText, list) == AfterValidation(sqlText, list, validateSql(sqlText, list))

\* lines 100-108: loadAiCatalog has returned or thrown load
AfterLoad(sqlText, load) ==
  IF ~load.ok
    THEN Returned(sqlText, Failure("EXECUTION_ERROR", load.message, <<>>))
    ELSE ValidateWith(sqlText, buildAllowlist(load.catalog))

ValidateAndExecute(sqlText, file) == AfterLoad(sqlText, loadAiCatalog(file))

\* a generator that would not test the select list
GenerateForUnchecked(model, parts, file) ==
  IF model.relation_name = <<>>
    THEN Returned(<<>>, Failure("NO_RELATION_NAME", "has no relation_name", model.name))
  ELSE ValidateAndExecute(SqlText(model, parts, groupByParts(model)), file)

\* query-executor.ts 28-108 for the selected model
GenerateFor(model, parts, file) ==
  IF model.relation_name = <<>>
    THEN Returned(<<>>, Failure("NO_RELATION_NAME", "has no relation_name", model.name))
  ELSE IF Len(parts) = 0
    THEN Returned(<<>>, Failure("NO_COLUMNS", "has no usable columns", model.name))
  ELSE ValidateAndExecute(SqlText(model, parts, groupByParts(model)), file)

\* a tool that would validate and execute even without a selected model
GenerateValidateAndExecuteUnguarded(results, q, file) ==
  IF Len(results) = 0
    THEN ValidateAndExecute(<<>>, file)
    ELSE GenerateFor(results[1].model, selectParts(results[1].model), file)

\* query-executor.ts 19-108: from the search results to the call of runSelect
GenerateValidateAndExecute(results, q, file) ==
  IF Len(results) = 0
    THEN Returned(<<>>, Failure("NO_MODEL_FOUND", "No matching models found for query", q))
    ELSE GenerateFor(results[1].model, selectParts(results[1].model), file)

\* ------------------------------------------------------------------------
\* the inputs
\* ------------------------------------------------------------------------

ModelLtv ==
  Model(<<"l","t","v">>, <<"w","e","e","k","l","y"," ","l","t","v">>, <<>>, <<"w","e","e","k">>, <<"d","b">>, <<BT,"d","b",BT,".",BT,"l","t","v",BT>>,
        <<<<"w","e","e","k">>>>, <<<<"a","v","g","_","l","t","v">>>>,
        <<Column(<<"w","e","e","k">>, <<>>, <<"D","a","t","e">>, <<>>),
          Column(<<"a","v","g","_","l","t","v">>, <<"a","v","e","r","a","g","e"," ","l","t","v">>, <<"F","l","o","a","t","6","4">>, <<"m","e","t","r","i","c">>)>>)

\* the same table after a rebuild of the catalog: other columns
ModelLtvRebuilt ==
  Model(<<"l","t","v">>, <<"w","e","e","k","l","y"," ","l","t","v">>, <<>>, <<"w","e","e","k">>, <<"d","b">>, <<BT,"d","b",BT,".",BT,"l","t","v",BT>>,
        <<<<"w","k">>>>, <<<<"t","o","t","a","l","_","l","t","v">>>>,
        <<Column(<<"w","k">>, <<>>, <<"D","a","t","e">>, <<>>),
          Column(<<"t","o","t","a","l","_","l","t","v">>, <<>>, <<"F","l","o","a","t","6","4">>, <<"m","e","t","r","i","c">>)>>)

\* a model without relation_name
ModelCosts ==
  Model(<<"c","o","s","t","s">>, <<"c","o","s","t","s"," ","b","y"," ","c","o","u","n","t","r","y">>, <<"m","a","r","k","e","t","i","n","g">>, <<>>, <<"d","b">>, <<>>,
        <<<<"c","o","u","n","t","r","y">>>>, <<<<"c","o","s","t">>>>,
        <<Column(<<"c","o","u","n","t","r","y">>, <<>>, <<"S","t","r","i","n","g">>, <<>>),
          Column(<<"c","o","s","t">>, <<>>, <<"F","l","o","a","t","6","4">>, <<>>)>>)

\* a model without a usable column
ModelNotes ==
  Model(<<"n","o","t","e","s">>, <<"n","o","t","e","s">>, <<>>, <<>>, <<>>, <<"n","o","t","e","s">>,
        <<>>, <<>>,
        <<Column(<<"n","o","t","e">>, <<>>, <<"S","t","r","i","n","g">>, <<>>)>>)

\* a model whose metric is named like a forbidden keyword
ModelUse ==
  Model(<<"u","s","a","g","e">>, <<"u","s","a","g","e">>, <<>>, <<>>, <<>>, <<"u","s","a","g","e">>,
        <<>>, <<<<"u","s","e">>>>,
        <<Column(<<"u","s","e">>, <<>>, <<"I","n","t","6","4">>, <<>>)>>)

Files ==
  {CatalogFile(<<ModelLtv>>),
   CatalogFile(<<ModelCosts, ModelNotes, ModelUse, ModelLtvRebuilt>>),
   CatalogFile(<<>>),
   MissingFile}

Queries == {<<"l","t","v"," ","b","y"," ","w","e","e","k">>, <<"c","o","s","t","s">>, <<"n","o","t","e","s">>, <<"u","s","a","g","e">>, <<"z","z","z">>}

SqlParams ==
  {<<"S","E","L","E","C","T"," ","w","e","e","k"," ","F","R","O","M"," ",BT,"d","b",BT,".",BT,"l","t","v",BT>>,
   <<"s","e","l","e","c","t"," ","a","v","g","(","a","v","g","_","l","t","v",")"," ","f","r","o","m"," ","d","b",".","l","t","v"," ","-","-"," ","w","e","e","k","l","y">>,
   <<"S","E","L","E","C","T"," ","w","e","e","k"," ","F","R","O","M"," ","d","b",".","l","t","v",";"," ","D","R","O","P"," ","T","A","B","L","E"," ","d","b",".","l","t","v">>,
   <<"S","E","L","E","C","T"," ","*"," ","F","R","O","M"," ","d","b",".","l","t","v">>,
   <<"S","E","L","E","C","T"," ","s","e","c","r","e","t"," ","F","R","O","M"," ","d","b",".","l","t","v">>,
   <<"S","E","L","E","C","T"," ","w","e","e","k"," ","F","R","O","M"," ","o","t","h","e","r">>,
   <<"D","R","O","P"," ","T","A","B","L","E"," ","d","b",".","l","t","v">>,
   <<>>}

\* the row counts runSelect may return
MaxRowCount == 1

\* ------------------------------------------------------------------------
\* the tools
\* ------------------------------------------------------------------------

Init ==
  /\ catalogFile \in Files
  /\ pc = "idle"
  /\ entry = "none"
  /\ query = <<>>
  /\ catalogResults = <<>>
  /\ sql = <<>>
  /\ allowlist = NoAllowlist
  /\ validation = NoValidation
  /\ calls = <<>>
  /\ result = NoResult
  /\ backend = NoBackend
  /\ athena = NoAthena


\* what `await searchCatalog(params.query)` leaves: the results, or the throw
Searched(load, q) ==
  IF load.ok
    THEN [pc |-> "searched", catalogResults |-> searchCatalog(load.catalog, q),
          result |-> NoResult]
    ELSE [pc |-> "done", catalogResults |-> <<>>,
          result |-> Failure("EXECUTION_ERROR", load.message, <<>>)]

\* queryExecutorTool.execute up to `await searchCatalog(params.query)`
QueryStart(q) ==
  /\ pc = "idle"
  /\ entry' = "query"
  /\ query' = q
  /\ \E s \in {Searched(loadAiCatalog(catalogFile), q)} :
       /\ pc' = s.pc
       /\ catalogResults' = s.catalogResults
       /\ result' = s.result
  /\ UNCHANGED <<catalogFile, sql, allowlist, validation, calls>>
  /\ UNCHANGED <<backend, athena>>

\* queryExecutorTool.execute from the search results to `await runSelect(...)`
QueryContinue ==
  /\ pc = "searched"
  /\ \E s \in {GenerateValidateAndExecute(catalogResults, query, catalogFile)} :
       /\ pc' = s.pc
       /\ sql' = s.sql
       /\ allowlist' = s.allowlist
       /\ validation' = s.validation
       /\ calls' = calls \o s.calls
       /\ result' = s.result
  /\ UNCHANGED <<catalogFile, entry, query, catalogResults>>
  /\ UNCHANGED <<backend, athena>>

\* sqlExecutorTool.execute up to `await runSelect(...)`
SqlStart(sqlText) ==
  /\ pc = "idle"
  /\ entry' = "sql"
  /\ \E s \in {ValidateAndExecute(sqlText, catalogFile)} :
       /\ pc' = s.pc
       /\ sql' = s.sql
       /\ allowlist' = s.allowlist
       /\ validation' = s.validation
       /\ calls' = calls \o s.calls
       /\ result' = s.result
  /\ UNCHANGED <<catalogFile, query, catalogResults>>
  /\ UNCHANGED <<backend, athena>>

\* runSelect resolves with n rows: the tool returns the success object
RunSelectReturns(n) ==
  /\ pc = "executing"
  /\ pc' = "done"
  /\ result' = Success(validation, n)
  /\ UNCHANGED <<catalogFile, entry, query, catalogResults, sql, allowlist,
                 validation, calls>>
  /\ UNCHANGED <<backend, athena>>

\* runSelect rejects: the catch block returns EXECUTION_ERROR for an Error and
\* UNKNOWN_ERROR for any other thrown value
RunSelectThrows(isError) ==
  /\ pc = "executing"
  /\ pc' = "done"
  /\ result' = IF isError
                 THEN Failure("EXECUTION_ERROR", "runSelect failed", <<>>)
                 ELSE Failure("UNKNOWN_ERROR", "An unknown error occurred", <<>>)
  /\ UNCHANGED <<catalogFile, entry, query, catalogResults, sql, allowlist,
                 validation, calls>>
  /\ UNCHANGED <<backend, athena>>

\* the catalog build step rewrites, empties or removes ai_catalog.json
ReplaceCatalog(file) ==
  /\ pc \in {"idle", "searched", "executing", "done"}
  /\ file # catalogFile
  /\ catalogFile' = file
  /\ UNCHANGED <<pc, entry, query, catalogResults, sql, allowlist, validation,
                 calls, result>>
  /\ UNCHANGED <<backend, athena>>

\* the caller has the returned object; the next invocation starts afresh
NextInvocation ==
  /\ pc = "done"
  /\ pc' = "idle"
  /\ entry' = "none"
  /\ query' = <<>>
  /\ catalogResults' = <<>>
  /\ sql' = <<>>
  /\ allowlist' = NoAllowlist
  /\ validation' = NoValidation
  /\ calls' = <<>>
  /\ result' = NoResult
  /\ UNCHANGED catalogFile
  /\ UNCHANGED <<backend, athena>>

Next ==
  \/ \E q \in Queries : QueryStart(q)
  \/ QueryContinue
  \/ \E sqlText \in SqlParams : SqlStart(sqlText)
  \/ \E n \in 0..MaxRowCount : RunSelectReturns(n)
  \/ \E isError \in BOOLEAN : RunSelectThrows(isError)
  \/ \E file \in Files : ReplaceCatalog(file)
  \/ NextInvocation

Spec == Init /\ [][Next]_vars

\* ------------------------------------------------------------------------
\* validateSql as a function of its input: SpecValidate
\* ------------------------------------------------------------------------

\* the allowlist {T: {a, b}}
ModelT ==
  Model(<<"m">>, <<>>, <<>>, <<>>, <<>>, <<"T">>, <<>>, <<>>,
        <<Column(<<"a">>, <<>>, <<>>, <<>>), Column(<<"b">>, <<>>, <<>>, <<>>)>>)

ModelDbT ==
  Model(<<"t">>, <<>>, <<>>, <<>>, <<"d","b">>, <<BT,"d","b",BT,".",BT,"t",BT>>, <<>>, <<>>,
        <<Column(<<"a">>, <<>>, <<>>, <<>>), Column(<<"b">>, <<>>, <<>>, <<>>)>>)

ModelAllowedT ==
  Model(<<"a","l","l","o","w","e","d">>, <<>>, <<>>, <<>>, <<>>, <<"a","l","l","o","w","e","d","T">>, <<>>, <<>>,
        <<Column(<<"a">>, <<>>, <<>>, <<>>)>>)

ValidateFiles ==
  {CatalogFile(<<ModelT>>), CatalogFile(<<ModelDbT, ModelAllowedT>>)}

ScenarioBase == <<"S","E","L","E","C","T"," ","a"," ","F","R","O","M"," ","a","l","l","o","w","e","d","T">>

DropAllowedT == <<" ","D","R","O","P"," ","T","A","B","L","E"," ","a","l","l","o","w","e","d","T">>

\* the queries the inputs are built around
Bases ==
  {<<"S","E","L","E","C","T"," ","a",","," ","b"," ","F","R","O","M"," ","T">>,
   <<"S","E","L","E","C","T"," ","a",","," ","c"," ","F","R","O","M"," ","T">>,
   <<"S","E","L","E","C","T"," ","x"," ","F","R","O","M"," ","u","n","k","n","o","w","n","_","t","a","b","l","e">>,
   <<"S","E","L","E","C","T"," ","*"," ","F","R","O","M"," ","T">>,
   <<"s","e","l","e","c","t","\t","*","\n","f","r","o","m"," ","T">>,
   <<"S","E","L","E","C","T"," ","T",".","c"," ","F","R","O","M"," ","T">>,
   <<"S","E","L","E","C","T"," ","a"," ","F","R","O","M"," ",BT,"d","b",BT,".",BT,"t",BT>>,
   <<"S","E","L","E","C","T"," ","a"," ","F","R","O","M"," ","d","b",".","t"," ","J","O","I","N"," ","d","b",".","u">>,
   <<"S","E","L","E","C","T","(","a",")"," ","F","R","O","M"," ","T">>,
   <<"S","E","L","E","C","T"," ","a"," ","F","R","O","M"," ","(","S","E","L","E","C","T","*"," ","F","R","O","M"," ","T",")">>,
   <<"S","E","L","E","C","T"," ","a"," ","F","R","O","M"," ","t">>,
   <<"S","E","L","E","C","T"," ","a">>,
   <<"W","I","T","H"," ","a"," ","A","S"," ","(","S","E","L","E","C","T"," ","b"," ","F","R","O","M"," ","T",")"," ","S","E","L","E","C","T"," ","a"," ","F","R","O","M"," ","T">>,
   <<"S","E","L","E","C","T"," ","a"," ","F","R","O","M"," ","T"," ","W","H","E","R","E"," ","a"," ","="," ","'","-","-","'"," ",";"," ","D","R","O","P"," ","T","A","B","L","E"," ","T">>,
   <<"S","E","L","E","C","T"," ","a"," ","F","R","O","M"," ","T"," ","W","H","E","R","E"," ","a"," ","="," ","'","/","*","'"," ","U","N","I","O","N"," ","A","L","L"," ","S","E","L","E","C","T"," ","*"," ","F","R","O","M"," ","T"," ","W","H","E","R","E"," ","a"," ","="," ","'","*","/","'">>,
   ScenarioBase,
   <<"D","R","O","P"," ","T","A","B","L","E"," ","T">>,
   <<>>}

\* what may precede a base query
Prefixes == {<<>>, <<"/","*"," ","x"," ","*","/","\n"," ">>}

\* what may follow a base query, piece after piece
ExtraFragments == {<<";">>, <<"-","-">>, <<"\n">>, <<"/","*">>, <<"*","/">>, DropAllowedT}

\* the number of pieces that may follow a base query
MaxExtra == 2

ExtraSeqs == UNION {[1..k -> ExtraFragments] : k \in 0..MaxExtra}

RECURSIVE Concat(_)
\* the pieces one after the other
Concat(pieces) ==
  IF Len(pieces) = 0 THEN <<>> ELSE pieces[1] \o Concat(Tail(pieces))

InitValidate ==
  /\ catalogFile \in ValidateFiles
  /\ pc = "input"
  /\ entry = "none"
  /\ query = <<>>
  /\ catalogResults = <<>>
  /\ sql \in {p \o b \o Concat(e) : p \in Prefixes, b \in Bases, e \in ExtraSeqs}
  /\ allowlist = NoAllowlist
  /\ validation = NoValidation
  /\ calls = <<>>
  /\ result = NoResult
  /\ backend = NoBackend
  /\ athena = NoAthena

\* validateSql(sql, buildAllowlist(loadAiCatalog())) and nothing else
ValidateInput ==
  /\ pc = "input"
  /\ pc' = "output"
  /\ \E list \in {buildAllowlist(loadAiCatalog(catalogFile).catalog)} :
       /\ allowlist' = list
       /\ validation' = validateSql(sql, list)
  /\ UNCHANGED <<catalogFile, entry, query, catalogResults, sql, calls, result>>
  /\ UNCHANGED <<backend, athena>>

SpecValidate == InitValidate /\ [][ValidateInput]_vars

\* ------------------------------------------------------------------------
\* buildAllowlist as a function of the catalog: SpecAllowlist
\* ------------------------------------------------------------------------

ColumnsAB == <<Column(<<"a">>, <<>>, <<>>, <<>>), Column(<<"b">>, <<>>, <<>>, <<>>)>>

ColumnsC == <<Column(<<"c">>, <<>>, <<>>, <<>>)>>

\* models that share names and table identities in every way the builder reads
ModelPool ==
  {Model(<<"m","1">>, <<>>, <<>>, <<>>, <<"d","b">>, <<BT,"d","b",BT,".",BT,"t",BT>>, <<<<"x">>>>, <<<<"y">>>>, ColumnsAB),
   Model(<<"m","2">>, <<>>, <<>>, <<>>, <<>>, <<BT,"d","b",BT,".",BT,"t",BT>>, <<>>, <<>>, ColumnsC),
   Model(<<"t">>, <<>>, <<>>, <<>>, <<"d","b">>, <<>>, <<<<"a">>>>, <<<<"c">>>>, ColumnsAB),
   Model(<<"t">>, <<>>, <<>>, <<>>, <<>>, <<>>, <<>>, <<>>, <<>>),
   Model(<<"m","1">>, <<>>, <<>>, <<>>, <<"d","b">>, <<" ","T"," ">>, <<>>, <<>>, ColumnsC),
   Model(<<"x">>, <<>>, <<>>, <<>>, <<>>, <<" "," ">>, <<>>, <<>>, ColumnsAB)}

\* the number of models of a catalog
MaxModels == 3

ModelSeqs == UNION {[1..k -> ModelPool] : k \in 1..MaxModels}

InitAllowlist ==
  /\ catalogFile \in {CatalogFile(ms) : ms \in ModelSeqs}
  /\ pc = "input"
  /\ entry = "none"
  /\ query = <<>>
  /\ catalogResults = <<>>
  /\ sql = <<>>
  /\ allowlist = NoAllowlist
  /\ validation = NoValidation
  /\ calls = <<>>
  /\ result = NoResult
  /\ backend = NoBackend
  /\ athena = NoAthena

\* buildAllowlist(loadAiCatalog()) and nothing else
BuildInput ==
  /\ pc = "input"
  /\ pc' = "output"
  /\ allowlist' = buildAllowlist(loadAiCatalog(catalogFile).catalog)
  /\ UNCHANGED <<catalogFile, entry, query, catalogResults, sql, validation,
                 calls, result>>
  /\ UNCHANGED <<backend, athena>>

SpecAllowlist == InitAllowlist /\ [][BuildInput]_vars

\* ------------------------------------------------------------------------
\* properties of the orchestrators (Spec)
\* ------------------------------------------------------------------------

\* the calls of validateSql before call j that accepted the string text
AcceptedBefore(j, text) ==
  {i \in 1..(j - 1) :
     calls[i].op = "validateSql" /\ calls[i].ok /\ calls[i].sql = text}

\* C1: in every run of either tool, runSelect is called only after
\* validateSql has accepted, earlier in the same run, the very string that is
\* executed, and a run returns rows only for a query the validator accepts.
C1_ExecutedOnlyAfterValidation ==
  /\ \A j \in 1..Len(calls) :
       calls[j].op = "runSelect" => AcceptedBefore(j, calls[j].sql) # {}
  /\ pc = "executing" =>
       /\ Len(calls) = 2
       /\ calls[2].op = "runSelect"
       /\ calls[2].sql = sql
  /\ result.success =>
       /\ \E j \in 1..Len(calls) : calls[j].op = "runSelect" /\ calls[j].sql = sql
       /\ validateSql(sql, allowlist).ok

\* a run of queryExecutorTool that returned rows
C1_Witness ==
  /\ pc = "done"
  /\ entry = "query"
  /\ result.success
  /\ result.rowCount = MaxRowCount
  /\ Len(calls) = 2

\* ------------------------------------------------------------------------
\* properties of validateSql (SpecValidate)
\* ------------------------------------------------------------------------

Output == pc = "output"

\* some allowlist key is t once quotes and backticks are removed from it
IsAllowlistKey(list, t) ==
  \E k \in 1..Len(list.tables) : stripQuotesTable(list.tables[k].key) = t

\* the positions after FROM or JOIN, as a word of l, and the whitespace
\* behind it, where a table reference of s begins
TargetStarts(s, l) ==
  {SpacesEnd(s, i + 4) : i \in {i \in 1..Len(s) :
     /\ WordAt(l, kwFrom, i) \/ WordAt(l, <<"j","o","i","n">>, i)
     /\ SpacesEnd(s, i + 4) > i + 4
     /\ TableRefEnds(s, SpacesEnd(s, i + 4)) # {}}}

\* the tables a query text reads from, quotes and backticks removed
TableTargets(s) ==
  {stripQuotesTable(TableRefAt(s, g)) : g \in TargetStarts(s, ToLower(s))}

\* C2: every table an accepted query reads from, whether it follows the first
\* FROM, a further FROM or a JOIN, is an allowlist key after quote stripping.
C2_AcceptedIsCatalogScoped ==
  Output /\ validation.ok =>
    \A t \in TableTargets(normalize(sql)) : IsAllowlistKey(allowlist, t)

\* the input has one of the denylisted keywords as a word, in any letter case
HasDeniedWord(l) ==
  \E k \in 1..Len(FORBIDDEN_KEYWORDS) : KeywordIn(l, FORBIDDEN_KEYWORDS[k])

\* C3: an input that contains a denylisted keyword as a standalone word, in
\* any letter case, is rejected whatever surrounds the keyword.
C3_DeniedWordIsRejected ==
  Output /\ HasDeniedWord(ToLower(sql)) => ~validation.ok

\* C4: an input that contains the statement separator ';' is rejected.
C4_SeparatorIsRejected ==
  Output /\ Includes(sql, <<";">>) => ~validation.ok

\* the word select followed, after any amount of whitespace or none, by '*'
ProjectsWildcard(l) ==
  \E i \in 1..Len(l) :
    WordAt(l, kwSelect, i) /\ CharAt(l, SpacesEnd(l, i + 6)) = "*"

\* C5: a query that projects an unqualified wildcard, select followed by '*'
\* in any letter case and with any amount of whitespace between, is rejected.
C5_WildcardIsRejected ==
  Output /\ ProjectsWildcard(ToLower(sql)) => ~validation.ok

\* the gates of the validator in their order, each as a test of its own on
\* the normalized text n in lower case l: TRUE when the gate rejects
GateFails(g, n, l, list) ==
  CASE g = 1 -> n = <<>>
    [] g = 2 -> Includes(n, <<";">>)
    [] g = 3 -> ~(StartsWith(l, <<"s","e","l","e","c","t"," ">>) \/ StartsWith(l, <<"w","i","t","h"," ">>))
    [] g = 4 -> HasDeniedWord(l)
    [] g = 5 -> SelectStarIn(l)
    [] g = 6 -> FromMatchesIn(n, l) = {}
    [] g = 7 -> ~IsAllowlistKey(list, stripQuotesTable(extractFromTable(n)))
    [] g = 8 ->
         \E k \in 1..Len(list.tables) :
           /\ k = FindAllowedTable(list, stripQuotesTable(extractFromTable(n)))
           /\ \E c \in Range(findReferencedColumns(n, extractFromTable(n))) :
                c \notin list.tables[k].cols

GateReason ==
  <<"SQL is empty.",
    "Multi-statement SQL is not allowed.",
    "Only SELECT queries are allowed.",
    "Forbidden keyword detected: ",
    "SELECT * is not allowed. Specify columns explicitly.",
    "FROM clause not found.",
    "Table is not allowlisted: ",
    "Column is not allowlisted: ">>

FailingGates(n, list) ==
  {g \in 1..Len(GateReason) : GateFails(g, n, ToLower(n), list)}

\* the reason the earliest of the failing gates gives, "" when none fails
EarliestReason(failing) ==
  IF failing = {} THEN "" ELSE GateReason[Min(failing)]

\* the gates before the table gate let the normalized text n through
PassesEarlierGates(n, list) == FailingGates(n, list) \cap (1..5) = {}

\* the identifier that follows the first FROM of n and one run of whitespace,
\* quotes and backticks removed; <<>> when none follows it
IdentifierAt(n, g) ==
  IF g <= Len(n) /\ IsSpace(n[g - 1])
    THEN stripQuotesTable(SubSeq(n, g, TableRefEnd(n, g) - 1))
    ELSE <<>>

IdentifierAfterFirstFrom(n, froms) ==
  IF froms = {} THEN <<>> ELSE IdentifierAt(n, SpacesEnd(n, Min(froms) + 4))

FirstFromIdentifier(n) ==
  IdentifierAfterFirstFrom(n, {i \in 1..Len(n) : WordAt(ToLower(n), kwFrom, i)})

\* the table gate rejected, naming what it read after FROM
TableRejected(ident) ==
  /\ ~validation.ok
  /\ validation.error = "Table is not allowlisted: "
  /\ stripQuotesTable(validation.detail) = ident

\* the table gate for the identifier ident behind the first FROM
TableGate(n, ident) ==
  /\ PassesEarlierGates(n, allowlist)
  /\ ident # <<>>
  /\ ~IsAllowlistKey(allowlist, ident)
  => TableRejected(ident)

\* C6: a query that passes the gates before the table gate, and whose first
\* FROM is followed by an identifier that equals no allowlist key once quotes
\* and backticks are removed from both, is rejected with the
\* table-not-allowlisted reason.
C6_UnknownTableIsRejected ==
  Output => \E n \in {normalize(sql)} : TableGate(n, FirstFromIdentifier(n))

\* "SELECT x FROM unknown_table" rejected by the table gate
C6_Witness ==
  /\ Output
  /\ sql = <<"S","E","L","E","C","T"," ","x"," ","F","R","O","M"," ","u","n","k","n","o","w","n","_","t","a","b","l","e">>
  /\ TableRejected(<<"u","n","k","n","o","w","n","_","t","a","b","l","e">>)
  /\ ~IsAllowlistKey(allowlist, <<"u","n","k","n","o","w","n","_","t","a","b","l","e">>)

\* the parts of the dotted token tok are the first or the last parts of the
\* table identity, so the token names the table and not a column
NamesTable(tokParts, fromParts) ==
  /\ Len(tokParts) <= Len(fromParts)
  /\ \/ tokParts = SubSeq(fromParts, 1, Len(tokParts))
     \/ tokParts = SubSeq(fromParts, Len(fromParts) - Len(tokParts) + 1,
                          Len(fromParts))

\* the columns the text n references: its identifiers that are neither
\* keywords or function names nor names of the table, without qualifier
QueryColumns(n, fromLower) ==
  {LastSegment(tok) : tok \in {tok \in Range(Tokens(n, 1)) :
     /\ ToLower(tok) \notin stop
     /\ ~SeqIncludes(FORBIDDEN_KEYWORDS, ToLower(tok))
     /\ ~NamesTable(Split(ToLower(tok)), FromParts(fromLower))}}

\* the allowed columns of the accepted table
AllowedColumns(list, table) ==
  UNION {list.tables[k].cols : k \in {k \in 1..Len(list.tables) :
                                        list.tables[k].key = table}}

\* C7: validateSql succeeds only if every column the query references is in
\* the allowed-column set of the matched table.
C7_AcceptedColumnsAreAllowed ==
  Output /\ validation.ok =>
    QueryColumns(normalize(sql), ToLower(stripQuotesTable(validation.table)))
      \subseteq AllowedColumns(allowlist, validation.table)

\* C8: the gates apply in the order empty, multi-statement, read-only shape,
\* forbidden keyword, wildcard, FROM extraction, table, column, and the
\* earliest failing gate alone gives the reason of the rejection; the query is
\* accepted when no gate fails.
C8_EarliestGateDecides ==
  Output =>
    \E failing \in {FailingGates(normalize(sql), allowlist)} :
      /\ validation.ok = (failing = {})
      /\ validation.error = EarliestReason(failing)

ScenarioC == ScenarioBase \o <<";">> \o DropAllowedT

\* "SELECT a FROM allowedT; DROP TABLE allowedT" fails the multi-statement and
\* the keyword gate and is rejected as multi-statement
C8_Witness ==
  /\ Output
  /\ sql = ScenarioC
  /\ IsAllowlistKey(allowlist, <<"a","l","l","o","w","e","d","T">>)
  /\ {2, 4} \subseteq FailingGates(normalize(sql), allowlist)
  /\ validation.error = "Multi-statement SQL is not allowed."

\* the read-only gate for a normalized text in lower case l that begins with
\* one of the words, begins == TRUE, or with neither
ReadOnlyGate(n, begins) ==
  /\ (n # <<>> /\ ~Includes(n, <<";">>) /\ ~begins)
       => validation.error = "Only SELECT queries are allowed."
  /\ begins => validation.error # "Only SELECT queries are allowed."
  /\ validation.ok => begins

\* C9 as stated: the gate tells by whether the normalized text begins with
\* 'select' or 'with'.
C9_BeginsWithWord ==
  Output =>
    \E n \in {normalize(sql)} :
      ReadOnlyGate(n, StartsWith(ToLower(n), kwSelect)
                        \/ StartsWith(ToLower(n), kwWith))

\* C9: validateSql rejects with the only-SELECT reason every non-empty,
\* single-statement query whose normalized text does not begin, in any letter
\* case, with 'select' or 'with' followed by a space, never rejects for that
\* reason one that does, and every accepted query begins that way.
C9_BeginsWithWordAndSpace ==
  Output =>
    \E n \in {normalize(sql)} :
      ReadOnlyGate(n, StartsWith(ToLower(n), <<"s","e","l","e","c","t"," ">>)
                        \/ StartsWith(ToLower(n), <<"w","i","t","h"," ">>))

\* "SELECT(a) FROM T" begins with the word but is rejected as not a SELECT
C9_Witness ==
  /\ Output
  /\ sql = <<"S","E","L","E","C","T","(","a",")"," ","F","R","O","M"," ","T">>
  /\ validation.error = "Only SELECT queries are allowed."

\* ------------------------------------------------------------------------
\* properties of buildAllowlist (SpecAllowlist)
\* ------------------------------------------------------------------------

\* the allowlist has an entry for the table with exactly these columns
HasEntry(list, table, cols) ==
  \E k \in 1..Len(list.tables) :
    list.tables[k].key = table /\ list.tables[k].cols = cols

\* the last model of the catalog that resolves to the table of model k
LastOfTable(models, k) ==
  Max({j \in 1..Len(models) : TableOf(models[j]) = TableOf(models[k])})

\* C10 as stated: every model has an entry under its table identity whose
\* value is the set of keys of that model's columns.
C10_EntryOfEveryModel ==
  Output =>
    \A k \in 1..Len(catalogFile.models) :
      HasEntry(allowlist, TableOf(catalogFile.models[k]),
               Range(ColumnKeys(catalogFile.models[k])))

\* C10: every model has an entry under its resolved table identity, and the
\* value of the entry is exactly the set of keys of the columns of the last
\* model of the catalog that resolves to that identity.
C10_EntryOfLastModel ==
  Output =>
    \A k \in 1..Len(catalogFile.models) :
      HasEntry(allowlist, TableOf(catalogFile.models[k]),
               Range(ColumnKeys(catalogFile.models[
                 LastOfTable(catalogFile.models, k)])))

\* two models of one table identity with different columns
C10_Witness ==
  /\ Output
  /\ \E j, k \in 1..Len(catalogFile.models) :
       /\ j < k
       /\ TableOf(catalogFile.models[j]) = TableOf(catalogFile.models[k])
       /\ ColumnKeys(catalogFile.models[j]) # ColumnKeys(catalogFile.models[k])
       /\ HasEntry(allowlist, TableOf(catalogFile.models[j]),
                   Range(ColumnKeys(catalogFile.models[k])))

\* the text x between backticks
Backticked(x) == <<BT>> \o x \o <<BT>>

\* the string is present and is more than whitespace
HasText(x) == \E i \in 1..Len(x) : ~IsSpace(x[i])

\* the table identity of model m by the precedence relation_name, then
\* schema.name, then the name alone, the last two with each part in backticks
ExpectedIdentity(m) ==
  CASE HasText(m.relation_name) -> Trim(m.relation_name)
    [] ~HasText(m.relation_name) /\ m.schema # <<>> ->
         Backticked(m.schema) \o <<".">> \o Backticked(m.name)
    [] OTHER -> Backticked(m.name)

\* modelToTable maps the name to the table
MapsName(list, name, table) ==
  \E k \in 1..Len(list.modelToTable) :
    list.modelToTable[k].key = name /\ list.modelToTable[k].value = table

\* the last model of the catalog that has the name of model k
LastOfName(models, k) ==
  Max({j \in 1..Len(models) : models[j].name = models[k].name})

\* the columns of the entries of the table are keys of the columns of a model
\* that resolves to the table, whatever the dimensions and metrics list
ColumnsFromKeys(list, models) ==
  \A e \in 1..Len(list.tables) :
    \E k \in 1..Len(models) :
      /\ ExpectedIdentity(models[k]) = list.tables[e].key
      /\ list.tables[e].cols = Range(ColumnKeys(models[k]))

EntryColumns(list, table) ==
  {list.tables[e].cols : e \in {e \in 1..Len(list.tables) :
                                  list.tables[e].key = table}}

\* C12: when two models resolve to one table identity, the entry of the table
\* holds the column set of the one that comes last in catalog order, neither
\* the union of the sets nor the set of an earlier model.
C12_LastWriteWins ==
  Output =>
    \A j, k \in 1..Len(catalogFile.models) :
      (j < k /\ k = LastOfTable(catalogFile.models, j)) =>
        EntryColumns(allowlist, TableOf(catalogFile.models[j]))
          = {Range(ColumnKeys(catalogFile.models[k]))}

\* an earlier model with columns {a, b} and a later one with {c} on one table:
\* the entry is {c}
C12_Witness ==
  /\ Output
  /\ \E j, k \in 1..Len(catalogFile.models) :
       /\ j < k
       /\ k = LastOfTable(catalogFile.models, j)
       /\ Range(ColumnKeys(catalogFile.models[j]))
            \cap Range(ColumnKeys(catalogFile.models[k])) = {}
       /\ ColumnKeys(catalogFile.models[j]) # <<>>
       /\ EntryColumns(allowlist, TableOf(catalogFile.models[k]))
            = {Range(ColumnKeys(catalogFile.models[k]))}

\* ------------------------------------------------------------------------
\* searchCatalog as a function of the document and the query: SpecSearch
\* ------------------------------------------------------------------------

\* searchCatalog(query): the results, or the throw of its loadAiCatalog()
SearchOutcome(load, q) ==
  IF load.ok
    THEN [threw |-> FALSE, results |-> searchCatalog(load.catalog, q)]
    ELSE [threw |-> TRUE, results |-> <<>>]

SearchLtv ==
  Model(<<"l","t","v">>, <<"w","e","e","k","l","y"," ","l","t","v">>, <<"m","a","r","k","e","t","i","n","g">>, <<"w","e","e","k">>, <<"d","b">>, <<BT,"d","b",BT,".",BT,"l","t","v",BT>>,
        <<<<"w","e","e","k">>>>, <<<<"a","v","g","_","l","t","v">>, <<"t","o","t","a","l","_","l","t","v">>>>,
        <<Column(<<"w","e","e","k">>, <<"w","e","e","k"," ","s","t","a","r","t">>, <<"D","a","t","e">>, <<>>),
          Column(<<"a","v","g","_","l","t","v">>, <<"a","v","e","r","a","g","e"," ","l","t","v">>, <<"F","l","o","a","t","6","4">>, <<"m","e","t","r","i","c">>),
          Column(<<"t","o","t","a","l","_","l","t","v">>, <<>>, <<"F","l","o","a","t","6","4">>, <<"m","e","t","r","i","c">>)>>)

\* the same fields under another name: the score of SearchLtv for every query
SearchLtvCopy ==
  Model(<<"l","t","v","2">>, <<"w","e","e","k","l","y"," ","l","t","v">>, <<"m","a","r","k","e","t","i","n","g">>, <<"w","e","e","k">>, <<"d","b">>, <<BT,"d","b",BT,".",BT,"l","t","v","2",BT>>,
        <<<<"w","e","e","k">>>>, <<<<"a","v","g","_","l","t","v">>, <<"t","o","t","a","l","_","l","t","v">>>>,
        <<Column(<<"w","e","e","k">>, <<"w","e","e","k"," ","s","t","a","r","t">>, <<"D","a","t","e">>, <<>>),
          Column(<<"a","v","g","_","l","t","v">>, <<"a","v","e","r","a","g","e"," ","l","t","v">>, <<"F","l","o","a","t","6","4">>, <<"m","e","t","r","i","c">>),
          Column(<<"t","o","t","a","l","_","l","t","v">>, <<>>, <<"F","l","o","a","t","6","4">>, <<"m","e","t","r","i","c">>)>>)

SearchCosts ==
  Model(<<"c","o","s","t","s">>, <<"c","o","s","t","s"," ","b","y"," ","c","o","u","n","t","r","y">>, <<"f","i","n","a","n","c","e">>, <<>>, <<"d","b">>, <<>>,
        <<<<"c","o","u","n","t","r","y">>, <<"w","e","e","k">>>>, <<<<"c","o","s","t">>>>,
        <<Column(<<"c","o","u","n","t","r","y">>, <<"c","o","u","n","t","r","y"," ","c","o","d","e">>, <<"S","t","r","i","n","g">>, <<>>),
          Column(<<"c","o","s","t">>, <<"c","o","s","t">>, <<"F","l","o","a","t","6","4">>, <<>>)>>)

\* a model without any of the fields the score reads
SearchBare ==
  Model(<<"b","a","r","e">>, <<>>, <<>>, <<>>, <<>>, <<>>, <<>>, <<>>, <<>>)

SearchPool == {SearchLtv, SearchLtvCopy, SearchCosts, SearchBare}

\* the number of models of a searched catalog
MaxSearchModels == 3

SearchFiles ==
  {MissingFile}
    \cup {CatalogFile(ms) :
            ms \in UNION {[1..k -> SearchPool] : k \in 0..MaxSearchModels}}

SearchQueries ==
  {<<"l","t","v">>, <<"W","e","e","k"," ","m","a","r","k","e","t","i","n","g"," ","L","T","V">>, <<"c","o","s","t"," ","b","y"," ","w","e","e","k">>, <<" ","c","o","s","t">>, <<"z","z","z">>, <<>>}

InitSearch ==
  /\ catalogFile \in SearchFiles
  /\ pc = "input"
  /\ entry = "none"
  /\ query \in SearchQueries
  /\ catalogResults = <<>>
  /\ sql = <<>>
  /\ allowlist = NoAllowlist
  /\ validation = NoValidation
  /\ calls = <<>>
  /\ result = NoResult
  /\ backend = NoBackend
  /\ athena = NoAthena

\* searchCatalog(query) and nothing else
SearchInput ==
  /\ pc = "input"
  /\ \E s \in {SearchOutcome(loadAiCatalog(catalogFile), query)} :
       /\ pc' = IF s.threw THEN "thrown" ELSE "output"
       /\ catalogResults' = s.results
  /\ UNCHANGED <<catalogFile, entry, query, sql, allowlist, validation, calls,
                 result>>
  /\ UNCHANGED <<backend, athena>>

SpecSearch == InitSearch /\ [][SearchInput]_vars

\* ------------------------------------------------------------------------
\* properties of searchCatalog (SpecSearch)
\* ------------------------------------------------------------------------

\* the scores of the models, in catalog order
ScoresOf(models, q) ==
  [k \in 1..Len(models) |-> calculateRelevanceScore(models[k], q).score]

\* the place of model k among the results: behind the models of a greater
\* score and behind the earlier models of its own score
PlaceOf(k, scores) ==
  1 + Cardinality({j \in 1..Len(scores) :
                     /\ scores[j] > 0
                     /\ scores[j] > scores[k] \/ (scores[j] = scores[k] /\ j < k)})

\* the results are the models of positive score, each at its place
RankedByScore(results, models, scores) ==
  /\ Len(results) = Cardinality({k \in 1..Len(scores) : scores[k] > 0})
  /\ \A k \in 1..Len(scores) :
       scores[k] > 0 =>
         /\ results[PlaceOf(k, scores)].model = models[k]
         /\ results[PlaceOf(k, scores)].relevanceScore = scores[k]

\* C13: searchCatalog returns exactly the models of strictly positive score,
\* by score descending, models of equal score in their catalog order.
C13_PositiveByScoreStable ==
  Output =>
    RankedByScore(catalogResults, catalogFile.models,
                  ScoresOf(catalogFile.models, query))

\* a model of lower score before two different models of one greater score:
\* the two come first, in catalog order
C13_Witness ==
  /\ Output
  /\ Len(catalogResults) = 3
  /\ catalogFile.models[1] = catalogResults[3].model
  /\ catalogFile.models[2] = catalogResults[1].model
  /\ catalogFile.models[3] = catalogResults[2].model
  /\ catalogResults[1].relevanceScore = catalogResults[2].relevanceScore
  /\ catalogResults[1].model # catalogResults[2].model
  /\ catalogResults[3].relevanceScore < catalogResults[2].relevanceScore

\* the name and some word of the query contain one another
OverlapsWord(n, words) ==
  \E w \in words : Includes(n, w) \/ Includes(w, n)

\* the positions of the list whose name, in lower case, overlaps a query word
OverlapCount(names, words) ==
  Cardinality({i \in 1..Len(names) : OverlapsWord(ToLower(names[i]), words)})

\* what each field contributes for the query in lower case q of words words
FieldPoints(m, q, words) ==
  [description |->
     IF /\ m.description # <<>>
        /\ \/ Includes(ToLower(m.description), q)
           \/ \E w \in words : Includes(ToLower(m.description), w)
       THEN 10 ELSE 0,
   metrics |-> 5 * OverlapCount(m.metrics, words),
   dimensions |-> 3 * OverlapCount(m.dimensions, words),
   grain |->
     IF /\ m.grain # <<>>
        /\ Includes(q, ToLower(m.grain)) \/ Includes(ToLower(m.grain), q)
       THEN 4 ELSE 0,
   domain |->
     IF m.domain # <<>> /\ Includes(q, ToLower(m.domain)) THEN 2 ELSE 0,
   columns |->
     2 * Cardinality({k \in 1..Len(m.columns) :
                        /\ m.columns[k].description # <<>>
                        /\ OverlapsWord(ToLower(m.columns[k].description), words)})]

FieldNames ==
  {"description", "metrics", "dimensions", "grain", "domain", "columns"}

\* the score is the sum of the points and the matched fields are the fields
\* with points, each once
SumOfPoints(s, points) ==
  /\ s.score = points.description + points.metrics + points.dimensions
                 + points.grain + points.domain + points.columns
  /\ Range(s.matchedFields) = {f \in FieldNames : points[f] > 0}
  /\ Len(s.matchedFields) = Cardinality({f \in FieldNames : points[f] > 0})

\* C14: the score of a model is the sum of the contributions of its fields,
\* +10 once for the description, +5 for each overlapping metric name, +3 for
\* each overlapping dimension name, +4 once for the grain, +2 once for the
\* domain, +2 for each overlapping column description, and each contributing
\* field is in matchedFields exactly once.
C14_ScoreIsSumOfFields ==
  Output =>
    \A k \in 1..Len(catalogFile.models) :
      SumOfPoints(calculateRelevanceScore(catalogFile.models[k], query),
                  FieldPoints(catalogFile.models[k], ToLower(query),
                              Range(Words(ToLower(query)))))

\* every field contributes, the metrics and the column descriptions twice
C14_Witness ==
  /\ Output
  /\ Len(catalogResults) >= 1
  /\ catalogResults[1].relevanceScore = 10 + 5 * 2 + 3 + 4 + 2 + 2 * 2
  /\ Len(catalogResults[1].matchedFields) = 6

\* C15: searchCatalog returns a list, possibly empty, for every query and
\* every state of the catalog document, and never throws.
C15_SearchNeverThrows == pc # "thrown"

\* ------------------------------------------------------------------------
\* further properties of the orchestrators (Spec)
\* ------------------------------------------------------------------------

\* the run of queryExecutorTool goes on from an empty list of results
LeavesEmptySearch ==
  pc = "searched" /\ catalogResults = <<>> /\ pc' # "searched"

\* the run has ended with NO_MODEL_FOUND and called nothing
EndsWithNoModelFound(p, r, c) ==
  /\ p = "done"
  /\ ~r.success
  /\ r.error = "NO_MODEL_FOUND"
  /\ c = <<>>

\* C16: when the search returns no candidate, the run of queryExecutorTool
\* returns the failure NO_MODEL_FOUND and calls neither validateSql nor
\* runSelect in that run.
C16_NoModelFoundCallsNothing ==
  /\ [][LeavesEmptySearch => EndsWithNoModelFound(pc', result', calls')]_vars
  /\ [](result.error = "NO_MODEL_FOUND" => EndsWithNoModelFound(pc, result, calls))

\* a query for which every model of the catalog scores zero
C16_Witness ==
  /\ EndsWithNoModelFound(pc, result, calls)
  /\ entry = "query"
  /\ catalogFile.readable
  /\ Len(catalogFile.models) > 1
  /\ \A k \in 1..Len(catalogFile.models) :
       calculateRelevanceScore(catalogFile.models[k], query).score = 0

ErrorCodes ==
  {"NO_MODEL_FOUND", "NO_RELATION_NAME", "NO_COLUMNS", "SQL_VALIDATION_ERROR",
   "EXECUTION_ERROR", "UNKNOWN_ERROR"}

\* validateSql rejected in this run
ValidatorRejected ==
  \E i \in 1..Len(calls) : calls[i].op = "validateSql" /\ ~calls[i].ok

\* the failure that carries the reason of the rejection v
IsValidationFailure(r, v) ==
  /\ ~r.success
  /\ r.error = "SQL_VALIDATION_ERROR"
  /\ ~v.ok
  /\ v.error \in Range(GateReason)
  /\ r.message = v.error
  /\ r.detail = v.detail

\* C19: every invocation of either tool ends with a structured object, a
\* success or a failure with one of the six error codes and a message, and no
\* exception leaves the tool; a rejection of the validator is returned as
\* SQL_VALIDATION_ERROR with the validator's reason as the message.
C19_StructuredResult ==
  /\ pc \in {"idle", "searched", "executing", "done"}
  /\ pc = "done" =>
       \/ result.success /\ result.error = ""
       \/ ~result.success /\ result.error \in ErrorCodes /\ result.message # ""
  /\ pc # "done" => result = NoResult
  /\ ValidatorRejected =>
       pc = "done" /\ IsValidationFailure(result, validateSql(sql, allowlist))
  /\ result.error = "SQL_VALIDATION_ERROR" => ValidatorRejected

\* sqlExecutorTool returned the table gate's rejection of the caller's query
C19_Witness ==
  /\ pc = "done"
  /\ entry = "sql"
  /\ ValidatorRejected
  /\ IsValidationFailure(result, validation)
  /\ result.message = "Table is not allowlisted: "

\* C20: the catalog the model was selected from and the catalog the allowlist
\* of the validation is built from are one snapshot: the allowlist holds the
\* selected model's table with that model's columns.
C20_OneCatalogSnapshot ==
  (entry = "query" /\ allowlist # NoAllowlist) =>
    \E m \in {catalogResults[1].model} :
      HasEntry(allowlist, TableOf(m), Range(ColumnKeys(m)))

\* ------------------------------------------------------------------------
\* the generation of the query for one selected model: SpecGenerate
\* ------------------------------------------------------------------------

GenColumnsWide ==
  <<Column(<<"w","e","e","k">>, <<>>, <<"D","a","t","e">>, <<>>),
    Column(<<"c","o","u","n","t","r","y">>, <<>>, <<"S","t","r","i","n","g">>, <<>>),
    Column(<<"c","o","s","t">>, <<>>, <<"F","l","o","a","t","6","4">>, <<>>),
    Column(<<"t","o","t","a","l","_","c","o","s","t">>, <<>>, <<"F","l","o","a","t","6","4">>, <<"m","e","t","r","i","c">>)>>

\* sum_cost carries no meta: its name alone does not make it a sum
GenColumnsNarrow ==
  <<Column(<<"w","e","e","k">>, <<>>, <<"D","a","t","e">>, <<>>),
    Column(<<"s","u","m","_","c","o","s","t">>, <<>>, <<"U","I","n","t","6","4">>, <<>>),
    Column(<<"n","o","t","e">>, <<>>, <<"S","t","r","i","n","g">>, <<>>)>>

GenColumnsText == <<Column(<<"n","o","t","e">>, <<>>, <<"S","t","r","i","n","g">>, <<>>)>>

GenColumns == {GenColumnsWide, GenColumnsNarrow, GenColumnsText}

GenDimensions ==
  {<<>>, <<<<"w","e","e","k">>>>, <<<<"w","e","e","k">>, <<"c","o","u","n","t","r","y">>>>, <<<<"c","o","u","n","t","r","y">>, <<"g","h","o","s","t">>, <<"w","e","e","k">>>>,
   <<<<"g","h","o","s","t">>>>}

GenMetrics ==
  {<<>>, <<<<"c","o","s","t">>>>, <<<<"t","o","t","a","l","_","c","o","s","t">>, <<"c","o","s","t">>>>, <<<<"g","h","o","s","t">>, <<"c","o","s","t">>>>,
   <<<<"s","u","m","_","c","o","s","t">>>>, <<<<"g","h","o","s","t">>>>}

GenRelations == {<<>>, <<BT,"d","b",BT,".",BT,"t",BT>>}

\* every model answers the query GenQuery through its description
GenModels ==
  {Model(<<"t">>, <<"g","e","n">>, <<>>, <<>>, <<"d","b">>, rel, dims, mets, cols) :
     rel \in GenRelations, dims \in GenDimensions, mets \in GenMetrics,
     cols \in GenColumns}

GenQuery == <<"g","e","n">>

InitGenerate ==
  /\ catalogFile \in {CatalogFile(<<m>>) : m \in GenModels}
  /\ pc = "idle"
  /\ entry = "none"
  /\ query = <<>>
  /\ catalogResults = <<>>
  /\ sql = <<>>
  /\ allowlist = NoAllowlist
  /\ validation = NoValidation
  /\ calls = <<>>
  /\ result = NoResult
  /\ backend = NoBackend
  /\ athena = NoAthena

NextGenerate ==
  \/ QueryStart(GenQuery)
  \/ QueryContinue

SpecGenerate == InitGenerate /\ [][NextGenerate]_vars

\* ------------------------------------------------------------------------
\* properties of the generated query (SpecGenerate)
\* ------------------------------------------------------------------------

\* the positions of s where sep begins
SepStarts(s, sep) == {i \in 1..Len(s) : MatchAt(s, sep, i)}

\* the k-th least member of hits
NthOf(hits, k) == CHOOSE i \in hits : Cardinality({j \in hits : j < i}) = k - 1

\* where piece k begins and ends, sep beginning at the positions hits
PieceFrom(hits, k, sepLen) == IF k = 1 THEN 1 ELSE NthOf(hits, k - 1) + sepLen

PieceTo(hits, k, len) ==
  IF k = Cardinality(hits) + 1 THEN len ELSE NthOf(hits, k) - 1

PiecesAt(s, hits, sepLen) ==
  [k \in 1..(Cardinality(hits) + 1) |->
     SubSeq(s, PieceFrom(hits, k, sepLen), PieceTo(hits, k, Len(s)))]

\* the pieces of s between the occurrences of sep, in order
Pieces(s, sep) == PiecesAt(s, SepStarts(s, sep), Len(sep))

\* s without its first n characters
DropFirst(s, n) == SubSeq(s, n + 1, Len(s))

\* the list of a clause: the pieces between ', ' behind the clause's keyword
ClauseList(line, keyword) ==
  IF StartsWith(line, keyword)
    THEN Pieces(DropFirst(line, Len(keyword)), <<","," ">>)
    ELSE <<>>

\* the members of list that are keys of m.columns, in list order
KeysListed(m, list) ==
  SelectSeq(list, LAMBDA x : \E k \in 1..Len(m.columns) : m.columns[k].key = x)

\* metric x wrapped in its aggregation and aliased to its own name
Wrapped(m, x) == AggregationOf(m, x) \o <<"(">> \o x \o <<")"," ","A","S"," ">> \o x

WrappedAll(m, ms) == [k \in 1..Len(ms) |-> Wrapped(m, ms[k])]

\* the run has generated a query for the first search result
Generated ==
  /\ entry = "query"
  /\ pc \in {"executing", "done"}
  /\ Len(catalogResults) > 0
  /\ sql # <<>>

\* the clauses behind FROM: GROUP BY the dimensions and ORDER BY the first
\* of them, or ORDER BY the first listed metric descending
ShapeOfTail(lines, dims, metrics) ==
  IF Len(dims) > 0
    THEN /\ Len(lines) = 4
         /\ ClauseList(lines[3], <<"G","R","O","U","P"," ","B","Y"," ">>) = dims
         /\ lines[4] = <<"O","R","D","E","R"," ","B","Y"," ">> \o dims[1]
    ELSE /\ Len(lines) = 3
         /\ lines[3] = <<"O","R","D","E","R"," ","B","Y"," ">> \o metrics[1] \o <<" ","D","E","S","C">>

ShapeOf(lines, m, dims, mets) ==
  /\ Len(lines) >= 3
  /\ ClauseList(lines[1], <<"S","E","L","E","C","T"," ">>) = dims \o WrappedAll(m, mets)
  /\ lines[2] = <<"F","R","O","M"," ">> \o m.relation_name
  /\ ShapeOfTail(lines, dims, m.metrics)

HasShape(text, m) ==
  ShapeOf(Pieces(text, <<"\n">>), m, KeysListed(m, m.dimensions),
          KeysListed(m, m.metrics))

\* a listed dimension or a listed metric is a key of columns
SelectsListed(m) ==
  Len(KeysListed(m, m.dimensions)) + Len(KeysListed(m, m.metrics)) > 0

C17_WitnessUngrouped ==
  /\ Generated
  /\ sql = <<"S","E","L","E","C","T"," ","a","v","g","(","c","o","s","t",")"," ","A","S"," ","c","o","s","t","\n","F","R","O","M"," ",BT,"d","b",BT,".",BT,"t",BT,"\n","O","R","D","E","R"," ","B","Y"," ","g","h","o","s","t"," ","D","E","S","C">>

\* the projection of the query text
Projection(text) == ClauseList(Pieces(text, <<"\n">>)[1], <<"S","E","L","E","C","T"," ">>)

\* column c is projected as an average under its own name
ProjectsAverage(items, c) == SeqIncludes(items, <<"a","v","g","(">> \o c \o <<")"," ","A","S"," ">> \o c)

\* the fallback projection: avg(col) of every numeric column that is not a
\* projected dimension, and the dimension columns
FallsBack(items, m, dims) ==
  /\ \A k \in 1..Len(m.columns) :
       (LooksNumeric(m.columns[k].data_type) /\ ~SeqIncludes(dims, m.columns[k].key))
         => ProjectsAverage(items, m.columns[k].key)
  /\ \A k \in 1..Len(dims) : SeqIncludes(items, dims[k])

\* no listed metric is a key of columns
SelectsNoMetric(m) == Len(KeysListed(m, m.metrics)) = 0

\* C18: whenever no listed metric of the selected model is a key of columns,
\* with or without projected dimensions, the generated query projects
\* avg(col) for every remaining numeric column and the dimension columns
C18_FallbackWheneverNoMetric ==
  (Generated /\ SelectsNoMetric(catalogResults[1].model)) =>
    FallsBack(Projection(sql), catalogResults[1].model,
              KeysListed(catalogResults[1].model, catalogResults[1].model.dimensions))

\* the fallback as the generator takes it: only when no listed dimension is a
\* key of columns either
C18_FallbackWhenNothingListed ==
  (Generated /\ ~SelectsListed(catalogResults[1].model)) =>
    FallsBack(Projection(sql), catalogResults[1].model, <<>>)

\* a dimension is projected, no metric is, and the numeric column is left out
C18_DimensionsOnly ==
  /\ Generated
  /\ SelectsNoMetric(catalogResults[1].model)
  /\ HasColumn(catalogResults[1].model, <<"c","o","s","t">>)
  /\ sql = <<"S","E","L","E","C","T"," ","w","e","e","k","\n","F","R","O","M"," ",BT,"d","b",BT,".",BT,"t",BT,"\n","G","R","O","U","P"," ","B","Y"," ","w","e","e","k","\n","O","R","D","E","R"," ","B","Y"," ","w","e","e","k">>

\* ------------------------------------------------------------------------
\* properties of the failures before validation (Spec, SpecGenerate)
\* ------------------------------------------------------------------------

\* the allowlist built from a catalog that holds m has a table entry under
\* the identity of m
HoldsTableEntry(list, m) ==
  \E k \in 1..Len(list.tables) : list.tables[k].key = ExpectedIdentity(m)

\* the run of queryExecutorTool ended with the failure code
EndedWith(code) ==
  /\ entry = "query"
  /\ pc = "done"
  /\ ~result.success
  /\ result.error = code

\* C21: a run fails with NO_RELATION_NAME only for a selected model without a
\* resolvable table identity (relation_name, else schema and name, else name):
\* a model for which the allowlist holds a table entry is never failed so
C21_FailsOnlyWithoutIdentity ==
  EndedWith("NO_RELATION_NAME") =>
    ~HoldsTableEntry(buildAllowlist([models |-> <<catalogResults[1].model>>]),
                     catalogResults[1].model)

\* what the tool tests: the run fails so exactly for a model whose
\* relation_name is absent or empty
C21_FailsWithoutRelationName ==
  (entry = "query" /\ pc \in {"executing", "done"} /\ Len(catalogResults) > 0) =>
    (result.error = "NO_RELATION_NAME" <=> catalogResults[1].model.relation_name = <<>>)

\* the model costs resolves to `db`.`costs` and is failed all the same
C21_FailedWithIdentity ==
  /\ EndedWith("NO_RELATION_NAME")
  /\ ExpectedIdentity(catalogResults[1].model) = <<BT,"d","b",BT,".",BT,"c","o","s","t","s",BT>>
  /\ HoldsTableEntry(buildAllowlist(loadAiCatalog(catalogFile).catalog),
                     catalogResults[1].model)

\* the call carries both caps
IsCapped(call) == call.maxRows >= 1 /\ call.maxExecutionTimeSeconds >= 1

\* C22: every call of runSelect, from either tool, carries a maximum row
\* count and a maximum execution time, the ones both tools write (10000 rows,
\* 30 seconds); a run that is executing has made such a call
C22_EveryExecutionIsCapped ==
  /\ \A i \in 1..Len(calls) :
       calls[i].op = "runSelect" =>
         /\ IsCapped(calls[i])
         /\ calls[i].maxRows = maxRows
         /\ calls[i].maxExecutionTimeSeconds = maxExecutionTimeSeconds
  /\ pc = "executing" =>
       /\ Len(calls) > 0
       /\ calls[Len(calls)].op = "runSelect"
       /\ calls[Len(calls)].sql = sql

\* the generated query of the model ltv is executing under both caps
C22_Witness ==
  /\ pc = "executing"
  /\ entry = "query"
  /\ calls[Len(calls)] =
       [op |-> "runSelect", sql |-> sql, ok |-> TRUE, maxRows |-> 10000,
        maxExecutionTimeSeconds |-> 30]

\* the same from sqlExecutorTool
C22_WitnessSql ==
  /\ pc = "executing"
  /\ entry = "sql"
  /\ IsCapped(calls[Len(calls)])

\* model m yields a projection: a listed dimension or metric that is a key of
\* columns, or a column whose data type looks numeric
YieldsProjection(m) ==
  \/ SelectsListed(m)
  \/ \E k \in 1..Len(m.columns) : LooksNumeric(m.columns[k].data_type)

\* the validator was called in this run
ReachedValidation == \E i \in 1..Len(calls) : calls[i].op = "validateSql"

\* every item of the select list is more than nothing
NonEmptyList(items) ==
  /\ Len(items) > 0
  /\ \A k \in 1..Len(items) : Len(items[k]) > 0

\* C23: a selected model with a relation name that yields neither a dimension
\* nor a metric nor a fallback numeric projection ends the run with NO_COLUMNS
\* naming the model, without a call of the validator or of runSelect, and no
\* other model does; the select list of every validated query is non-empty
C23_NoColumnsWithoutProjection ==
  /\ (entry = "query" /\ pc \in {"executing", "done"} /\ Len(catalogResults) > 0
        /\ catalogResults[1].model.relation_name # <<>>) =>
       (result.error = "NO_COLUMNS" <=> ~YieldsProjection(catalogResults[1].model))
  /\ result.error = "NO_COLUMNS" =>
       /\ EndedWith("NO_COLUMNS")
       /\ result.detail = catalogResults[1].model.name
       /\ calls = <<>>
  /\ (entry = "query" /\ ReachedValidation) => NonEmptyList(Projection(sql))

\* a model whose only column is text and whose listed names are no columns
C23_Witness ==
  /\ EndedWith("NO_COLUMNS")
  /\ calls = <<>>
  /\ catalogResults[1].model.dimensions = <<<<"g","h","o","s","t">>>>
  /\ catalogResults[1].model.metrics = <<<<"g","h","o","s","t">>>>
  /\ ColumnKeys(catalogResults[1].model) = <<<<"n","o","t","e">>>>

\* C27: the query generated for a model with a relation name is accepted by
\* validateSql against the allowlist built from the same catalog: no run ends
\* in SQL_VALIDATION_ERROR because of the generated query
C27_GeneratedIsAccepted ==
  Generated => (validation.ok /\ result.error # "SQL_VALIDATION_ERROR")

\* the first listed metric is no column: the ORDER BY names it and the column
\* gate rejects the query
C27_RejectedOrderBy ==
  /\ Generated
  /\ EndedWith("SQL_VALIDATION_ERROR")
  /\ sql = <<"S","E","L","E","C","T"," ","a","v","g","(","c","o","s","t",")"," ","A","S"," ","c","o","s","t","\n","F","R","O","M"," ",BT,"d","b",BT,".",BT,"t",BT,"\n","O","R","D","E","R"," ","B","Y"," ","g","h","o","s","t"," ","D","E","S","C">>
  /\ result.message = "Column is not allowlisted: "
  /\ result.detail = <<"g","h","o","s","t">>

\* a metric column named like a forbidden keyword: the keyword gate rejects
\* the query, the catalog being the one the model was selected from
C27_RejectedKeywordColumn ==
  /\ Generated
  /\ EndedWith("SQL_VALIDATION_ERROR")
  /\ catalogFile.readable
  /\ \E k \in 1..Len(catalogFile.models) :
       catalogFile.models[k] = catalogResults[1].model
  /\ sql = <<"S","E","L","E","C","T"," ","a","v","g","(","u","s","e",")"," ","A","S"," ","u","s","e","\n","F","R","O","M"," ","u","s","a","g","e","\n","O","R","D","E","R"," ","B","Y"," ","u","s","e"," ","D","E","S","C">>
  /\ result.message = "Forbidden keyword detected: "

\* runSelect was called in this run
Executed == \E i \in 1..Len(calls) : calls[i].op = "runSelect"

\* C28: a run returns EXECUTION_ERROR only if runSelect was called in it and
\* failed: a catalog document that cannot be read or is empty is not reported
\* as EXECUTION_ERROR
C28_ExecutionErrorOnlyAfterExecution ==
  (pc = "done" /\ result.error = "EXECUTION_ERROR") => Executed

\* the document is missing or empty, nothing was called, and the run of
\* either tool returned EXECUTION_ERROR with the message of loadAiCatalog
C28_CatalogFailure ==
  /\ pc = "done"
  /\ result.error = "EXECUTION_ERROR"
  /\ result.message \in {"ENOENT", "ai_catalog.json invalid or empty"}
  /\ calls = <<>>

\* ------------------------------------------------------------------------
\* the column extraction of validateSql on function calls and dotted names:
\* SpecColumns
\* ------------------------------------------------------------------------

\* the aggregate and date-function names of the stop list, as listed and in
\* other letter cases
FunctionSpellings ==
  {<<"s","u","m">>, <<"S","U","M">>, <<"S","u","m">>, <<"a","v","g">>, <<"A","V","G">>, <<"m","i","n">>, <<"M","I","N">>, <<"m","a","x">>, <<"M","A","X">>,
   <<"c","o","u","n","t">>, <<"C","O","U","N","T">>, <<"d","a","t","e">>, <<"D","A","T","E">>, <<"D","a","t","e">>,
   <<"t","o","D","a","t","e">>, <<"t","o","d","a","t","e">>, <<"T","O","D","A","T","E">>,
   <<"t","o","S","t","a","r","t","O","f","W","e","e","k">>, <<"t","o","s","t","a","r","t","o","f","w","e","e","k">>, <<"T","O","S","T","A","R","T","O","F","W","E","E","K">>}

ColumnNames == {<<"a">>, <<"b">>, <<"c">>}

ColumnTables == {<<"T">>, <<"d","b",".","t">>}

FunctionQuery(f, c, t) == <<"S","E","L","E","C","T"," ">> \o f \o <<"(">> \o c \o <<")"," ","F","R","O","M"," ">> \o t

FunctionQueries ==
  {FunctionQuery(f, c, t) : f \in FunctionSpellings, c \in ColumnNames,
                            t \in ColumnTables}

\* the structural keywords in upper, lower and mixed case
KeywordQueries ==
  {<<"S","E","L","E","C","T"," ","D","I","S","T","I","N","C","T"," ","a"," ","A","S"," ","b"," ","F","R","O","M"," ","T"," ","W","H","E","R","E"," ","a"," ","I","S"," ","N","O","T"," ","N","U","L","L"," ","A","N","D"," ","b"," ","I","N"," ","(","a",")"," ","O","R"," ","a"," ","="," ","b"," ","G","R","O","U","P"," ","B","Y"," ","a"," ","H","A","V","I","N","G"," ","a"," ","="," ","b"," ","O","R","D","E","R"," ","B","Y"," ","a"," ","D","E","S","C",","," ","b"," ","A","S","C"," ","L","I","M","I","T"," ","5">>,
   <<"s","e","l","e","c","t"," ","d","i","s","t","i","n","c","t"," ","a"," ","a","s"," ","b"," ","f","r","o","m"," ","T"," ","w","h","e","r","e"," ","a"," ","i","s"," ","n","o","t"," ","n","u","l","l"," ","a","n","d"," ","b"," ","i","n"," ","(","a",")"," ","o","r"," ","a"," ","="," ","b"," ","g","r","o","u","p"," ","b","y"," ","a"," ","h","a","v","i","n","g"," ","a"," ","="," ","b"," ","o","r","d","e","r"," ","b","y"," ","a"," ","d","e","s","c",","," ","b"," ","a","s","c"," ","l","i","m","i","t"," ","5">>,
   <<"S","e","l","e","c","t"," ","C","a","s","e"," ","W","h","e","n"," ","a"," ","="," ","b"," ","T","h","e","n"," ","a"," ","E","l","s","e"," ","b"," ","E","n","d"," ","F","r","o","m"," ","T">>}

DottedNames ==
  {<<"a">>, <<"c">>, <<"T",".","a">>, <<"T",".","c">>, <<"d","b",".","a">>, <<"d","b",".","c">>, <<"d","b",".","t">>, <<"t",".","a">>, <<"x",".","a">>,
   <<"x",".","c">>, <<"d","b",".","s","e","c","r","e","t">>, <<"o","t","h","e","r",".","t">>}

DottedQuery(tok, t) == <<"S","E","L","E","C","T"," ">> \o tok \o <<" ","F","R","O","M"," ">> \o t

DottedQueries == {DottedQuery(tok, t) : tok \in DottedNames, t \in ColumnTables}

InitColumns ==
  /\ catalogFile \in ValidateFiles
  /\ pc = "input"
  /\ entry = "none"
  /\ query = <<>>
  /\ catalogResults = <<>>
  /\ sql \in FunctionQueries \cup KeywordQueries \cup DottedQueries
  /\ allowlist = NoAllowlist
  /\ validation = NoValidation
  /\ calls = <<>>
  /\ result = NoResult
  /\ backend = NoBackend
  /\ athena = NoAthena

SpecColumns == InitColumns /\ [][ValidateInput]_vars

\* column c is allowed for the table written t
IsAllowedColumn(list, t, c) ==
  \E k \in 1..Len(list.tables) :
    stripQuotesTable(list.tables[k].key) = t /\ c \in list.tables[k].cols

\* validateSql accepts the call of f on every allowlisted column of every
\* allowlisted table
AcceptsCallsOf(f) ==
  \A c \in ColumnNames, t \in ColumnTables :
    (sql = FunctionQuery(f, c, t) /\ IsAllowedColumn(allowlist, t, c))
      => validation.ok

\* C24: every listed aggregate and date-function name, in whatever letter
\* case, and every structural keyword is discarded by the column extraction:
\* a query that applies one of the functions to an allowlisted column of an
\* allowlisted table is accepted
C24_FunctionNamesAreDiscarded ==
  pc = "output" =>
    /\ \A f \in FunctionSpellings : AcceptsCallsOf(f)
    /\ (sql \in KeywordQueries /\ IsAllowlistKey(allowlist, <<"T">>)) => validation.ok

\* what the extraction does: the names whose lower-case form is in the stop
\* list are discarded in every letter case, and so are the structural keywords
C24_LowerCaseNamesAreDiscarded ==
  pc = "output" =>
    /\ \A f \in {f \in FunctionSpellings : ToLower(f) \in stop} : AcceptsCallsOf(f)
    /\ (sql \in KeywordQueries /\ IsAllowlistKey(allowlist, <<"T">>)) => validation.ok

\* toDate as the stop list writes it, on an allowed column of an allowed
\* table, rejected as a column
C24_RejectedToDate ==
  /\ pc = "output"
  /\ sql = <<"S","E","L","E","C","T"," ","t","o","D","a","t","e","(","a",")"," ","F","R","O","M"," ","T">>
  /\ IsAllowedColumn(allowlist, <<"T">>, <<"a">>)
  /\ ~validation.ok
  /\ validation.error = "Column is not allowlisted: "
  /\ validation.detail = <<"t","o","D","a","t","e">>

\* the token is a structural keyword, a function name or a forbidden keyword
\* for the extraction
IsKeywordToken(tok) ==
  ToLower(tok) \in stop \/ SeqIncludes(FORBIDDEN_KEYWORDS, ToLower(tok))

\* the dotted parts are the first or the last parts of the table identity
IsPrefixOrSuffix(parts, tableParts) ==
  \E n \in 1..Len(tableParts) :
    \/ parts = SubSeq(tableParts, 1, n)
    \/ parts = SubSeq(tableParts, Len(tableParts) - n + 1, Len(tableParts))

\* the tokens of the query n that are neither keywords nor references to the
\* table written from
SurvivingTokens(n, from) ==
  {tok \in Range(Tokens(n, 1)) :
     /\ ~IsKeywordToken(tok)
     /\ ~IsPrefixOrSuffix(Split(ToLower(tok)), Split(ToLower(stripQuotesTable(from))))}

CandidatesCover(n, from) ==
  \A tok \in SurvivingTokens(n, from) :
    SeqIncludes(findReferencedColumns(n, from), LastSegment(tok))

\* C25: the extraction discards a token as a table reference only when its
\* dotted parts are a prefix or a suffix of the table identity; every other
\* token that is no keyword contributes its last dotted segment as a
\* referenced-column candidate
C25_DiscardsOnlyTableReferences ==
  (pc = "output" /\ extractFromTable(normalize(sql)) # <<>>) =>
    CandidatesCover(normalize(sql), extractFromTable(normalize(sql)))

\* db.secret shares the schema with db.t alone; the query is accepted and no
\* column was checked
C25_SchemaSharedAccepted ==
  /\ pc = "output"
  /\ sql = <<"S","E","L","E","C","T"," ","d","b",".","s","e","c","r","e","t"," ","F","R","O","M"," ","d","b",".","t">>
  /\ IsAllowlistKey(allowlist, <<"d","b",".","t">>)
  /\ ~IsAllowedColumn(allowlist, <<"d","b",".","t">>, <<"s","e","c","r","e","t">>)
  /\ validation.ok
  /\ validation.referencedColumns = <<>>

\* a token that shares no part with the table does contribute its last segment
C25_ForeignTokenSurvives ==
  /\ pc = "output"
  /\ sql = <<"S","E","L","E","C","T"," ","x",".","c"," ","F","R","O","M"," ","T">>
  /\ ~validation.ok
  /\ validation.detail = <<"c">>

\* ------------------------------------------------------------------------
\* the words of the query (SpecSearch)
\* ------------------------------------------------------------------------

\* the non-empty words of the query and the non-empty query itself, lower case
NonEmptyWords(q) ==
  {w \in Range(Words(ToLower(q))) \cup {ToLower(q)} : w # <<>>}

\* the fields of the model the score reads, lower case, those present
SearchableFields(m) ==
  {ToLower(f) :
     f \in {f \in {m.description, m.grain, m.domain} \cup Range(m.metrics)
                    \cup Range(m.dimensions) \cup Range(ColumnDescriptions(m)) :
              f # <<>>}}

\* the word occurs in the field or contains it
Touches(w, f) == Includes(f, w) \/ Includes(w, f)

\* a non-empty word of the query touches a field of model m
MatchesByWord(m, q) ==
  \E w \in NonEmptyWords(q), f \in SearchableFields(m) : Touches(w, f)

\* the query splits into an empty word: it is empty, or begins or ends with
\* whitespace
HasEmptyWord(q) == \E k \in 1..Len(Words(ToLower(q))) : Words(ToLower(q))[k] = <<>>

\* C30: searchCatalog returns a model only if a non-empty word of the query,
\* or the whole non-empty query, occurs in or contains one of the model's
\* searchable fields: the empty query and the empty word of a query with
\* leading or trailing whitespace give no model a positive score
C30_ReturnedOnlyByNonEmptyWord ==
  pc = "output" =>
    \A k \in 1..Len(catalogResults) : MatchesByWord(catalogResults[k].model, query)

\* the same for the queries that split into non-empty words alone
C30_ReturnedByWord ==
  (pc = "output" /\ ~HasEmptyWord(query)) =>
    \A k \in 1..Len(catalogResults) : MatchesByWord(catalogResults[k].model, query)

\* the empty query returns the model ltv, with the points of every field the
\* empty word is found in
C30_EmptyQueryMatches ==
  /\ pc = "output"
  /\ query = <<>>
  /\ Len(catalogResults) > 0
  /\ catalogResults[1].model = SearchLtv
  /\ catalogResults[1].relevanceScore >= 10

\* ------------------------------------------------------------------------
\* the submit-then-poll backend: runAthenaSelect and funnelDropAnalyzerTool
\* (SpecAthena). Time is counted in seconds.
\* ------------------------------------------------------------------------

\* the options funnelDropAnalyzerTool passes
funnelMaxRows == 10

funnelMaxExecutionTimeSeconds == 60

\* MaxResults: Math.min(maxRows - rows.length, 1000)
maxResultsPerPage == 1000

\* the data rows of a result set
MaxDataRows == 4

\* the options of the other callers of runAthenaSelect
MaxRowsOption == 3

MaxSecondsOption == 2

\* the seconds a request to the backend may take
MaxLatency == 1

\* StateChangeReason, when the backend gives one
Reasons == {<<>>, <<"S","Y","N","T","A","X","_","E","R","R","O","R">>}

\* `${reason ?? state}`
ReasonOrState(state, reason) ==
  IF reason # <<>> THEN reason
  ELSE IF state = "FAILED" THEN <<"F","A","I","L","E","D">> ELSE <<"C","A","N","C","E","L","L","E","D">>

\* runAthenaSelect throws: the tool's catch block returns EXECUTION_ERROR, any
\* other caller gets the exception
AthenaThrew(caller, a, message, detail) ==
  [pc |-> "done",
   athena |-> [a EXCEPT !.outcome = "thrown", !.message = message,
                        !.detail = detail],
   result |-> IF caller = "funnel"
                THEN Failure("EXECUTION_ERROR", message, detail)
                ELSE NoResult]

\* runAthenaSelect returns { rows, rowCount: rows.length }
AthenaReturned(caller, a) ==
  [pc |-> "done",
   athena |-> [a EXCEPT !.outcome = "returned"],
   result |-> IF caller = "funnel"
                THEN Success(NoValidation, Len(a.rows))
                ELSE NoResult]

AthenaGoes(nextPc, a) == [pc |-> nextPc, athena |-> a, result |-> NoResult]

\* a polling loop that would take FAILED and CANCELLED for states to wait on
PollOutcomeWaitingOnFailure(caller, a, state, reason) ==
  IF state = "SUCCEEDED" THEN AthenaGoes("fetching", a)
  ELSE IF a.elapsed > a.maxExecutionTimeSeconds
    THEN AthenaThrew(caller, a, "Query execution timeout", <<>>)
  ELSE AthenaGoes("sleeping", a)

\* athena.ts 84-99: what one turn of the loop does with the state it read
PollOutcome(caller, a, state, reason) ==
  IF state = "SUCCEEDED" THEN AthenaGoes("fetching", a)
  ELSE IF state \in {"FAILED", "CANCELLED"}
    THEN AthenaThrew(caller, a, "Query failed: ", ReasonOrState(state, reason))
  ELSE IF a.elapsed > a.maxExecutionTimeSeconds
    THEN AthenaThrew(caller, a, "Query execution timeout", <<>>)
  ELSE AthenaGoes("sleeping", a)

\* the rows of a page that begins at position from: 0 is the header row,
\* 1..N are the data rows
PageRows(from, size) == [i \in 1..size |-> from + i - 1]

\* for (let i = rows.length === 0 ? 1 : 0; i < resultSet.Rows.length; i++)
PushedRows(rows, page) ==
  SubSeq(page, (IF Len(rows) = 0 THEN 1 ELSE 0) + 1, Len(page))

\* NextToken of the response: absent (0) behind the last row
TokenAfter(from, size, dataRows) ==
  IF from + size <= dataRows THEN from + size ELSE 0

\* athena.ts 123-146: the rows pushed and the test of the do-while loop
PageOutcome(caller, a, token) ==
  IF token # 0 /\ Len(a.rows) < a.maxRows
    THEN AthenaGoes("fetching", [a EXCEPT !.nextToken = token])
    ELSE AthenaReturned(caller, [a EXCEPT !.nextToken = token])

\* MaxResults of the next request
MaxResultsOf(a) == Min({a.maxRows - Len(a.rows), maxResultsPerPage})

\* the call of runAthenaSelect up to the answer to StartQueryExecution
Submit(caller, maxRowsOption, maxSecondsOption, started, n) ==
  /\ pc = "idle"
  /\ entry' = caller
  /\ backend' = IF started
                  THEN [state |-> "QUEUED", reason |-> <<>>, dataRows |-> n]
                  ELSE NoBackend
  /\ \E a \in {[NoAthena EXCEPT !.maxRows = maxRowsOption,
                               !.maxExecutionTimeSeconds = maxSecondsOption]} :
       \E s \in {IF started
                   THEN AthenaGoes("polling", a)
                   ELSE AthenaThrew(caller, a, "Failed to start query execution", <<>>)} :
         /\ pc' = s.pc
         /\ athena' = s.athena
         /\ result' = s.result
  /\ UNCHANGED <<catalogFile, query, catalogResults, sql, allowlist, validation,
                 calls>>

\* funnelDropAnalyzerTool.execute up to the first poll
FunnelExecute(started, n) ==
  Submit("funnel", funnelMaxRows, funnelMaxExecutionTimeSeconds, started, n)

\* runAthenaSelect(sql, opts) called with other options
RunAthenaSelect(maxRowsOption, maxSecondsOption, started, n) ==
  Submit("athena", maxRowsOption, maxSecondsOption, started, n)

\* GetQueryExecution answers after d seconds
StatusReturns(d) ==
  /\ pc = "polling"
  /\ \E s \in {PollOutcome(entry, [athena EXCEPT !.elapsed = @ + d],
                           backend.state, backend.reason)} :
       /\ pc' = s.pc
       /\ athena' = s.athena
       /\ result' = s.result
  /\ UNCHANGED <<catalogFile, entry, query, catalogResults, sql, allowlist,
                 validation, calls, backend>>

\* await new Promise((resolve) => setTimeout(resolve, 1000))
Sleep ==
  /\ pc = "sleeping"
  /\ pc' = "polling"
  /\ athena' = [athena EXCEPT !.elapsed = @ + 1]
  /\ UNCHANGED <<catalogFile, entry, query, catalogResults, sql, allowlist,
                 validation, calls, result, backend>>

\* the backend moves the query execution on
BackendAdvances(state, reason) ==
  /\ pc \in {"polling", "sleeping"}
  /\ backend.state \in {"QUEUED", "RUNNING"}
  /\ state # backend.state
  /\ reason # <<>> => state = "FAILED"
  /\ backend' = [backend EXCEPT !.state = state, !.reason = reason]
  /\ UNCHANGED <<catalogFile, pc, entry, query, catalogResults, sql, allowlist,
                 validation, calls, result, athena>>

\* GetQueryResults answers with a page of size rows, at most MaxResults
ResultsReturn(size) ==
  /\ pc = "fetching"
  /\ size <= MaxResultsOf(athena)
  /\ athena.nextToken + size <= backend.dataRows + 1
  /\ \E s \in {PageOutcome(entry,
                           [athena EXCEPT !.rows =
                              @ \o PushedRows(@, PageRows(athena.nextToken, size))],
                           TokenAfter(athena.nextToken, size, backend.dataRows))} :
       /\ pc' = s.pc
       /\ athena' = s.athena
       /\ result' = s.result
  /\ UNCHANGED <<catalogFile, entry, query, catalogResults, sql, allowlist,
                 validation, calls, backend>>

\* client.send rejects
RequestFails ==
  /\ pc \in {"polling", "fetching"}
  /\ \E s \in {AthenaThrew(entry, athena, "request failed", <<>>)} :
       /\ pc' = s.pc
       /\ athena' = s.athena
       /\ result' = s.result
  /\ UNCHANGED <<catalogFile, entry, query, catalogResults, sql, allowlist,
                 validation, calls, backend>>

StatusStep == \E d \in 0..MaxLatency : StatusReturns(d)

ResultsStep == \E size \in 1..(MaxDataRows + 1) : ResultsReturn(size)

NextAthena ==
  \/ \E started \in BOOLEAN, n \in 0..MaxDataRows : FunnelExecute(started, n)
  \/ \E r \in 1..MaxRowsOption, w \in 0..MaxSecondsOption, started \in BOOLEAN,
        n \in 0..MaxDataRows : RunAthenaSelect(r, w, started, n)
  \/ StatusStep
  \/ Sleep
  \/ \E state \in {"RUNNING", "SUCCEEDED", "FAILED", "CANCELLED"},
        reason \in Reasons : BackendAdvances(state, reason)
  \/ ResultsStep
  \/ RequestFails

\* no tool is running; the catalog document plays no part here
InitAthena == Init /\ catalogFile = CatalogFile(<<ModelLtv>>)

SpecAthena == InitAthena /\ [][NextAthena]_vars

\* every request to the backend is answered and every timer fires
SpecAthenaLive ==
  /\ SpecAthena
  /\ WF_vars(StatusStep)
  /\ WF_vars(Sleep)
  /\ WF_vars(ResultsStep)

\* ------------------------------------------------------------------------
\* properties of runAthenaSelect (SpecAthena, SpecAthenaLive)
\* ------------------------------------------------------------------------

\* the invocation is in its polling loop
Polling == pc \in {"polling", "sleeping"}

\* runAthenaSelect threw the message
ThrewMessage(a, message) == a.outcome = "thrown" /\ a.message = message

\* this step is a turn of the polling loop whose status request was answered
AnsweredTurn ==
  /\ pc = "polling"
  /\ pc' # "polling"
  /\ ~ThrewMessage(athena', "request failed")

\* what the turn does with the state the backend is in
TurnDecides ==
  /\ backend.state = "SUCCEEDED" => pc' = "fetching"
  /\ backend.state \in {"FAILED", "CANCELLED"} =>
       /\ pc' = "done"
       /\ ThrewMessage(athena', "Query failed: ")
       /\ athena'.detail =
            (IF backend.reason # <<>> THEN backend.reason
             ELSE IF backend.state = "FAILED" THEN <<"F","A","I","L","E","D">> ELSE <<"C","A","N","C","E","L","L","E","D">>)
  /\ (backend.state \in {"QUEUED", "RUNNING"}
        /\ athena'.elapsed > athena.maxExecutionTimeSeconds) =>
       /\ pc' = "done"
       /\ ThrewMessage(athena', "Query execution timeout")
  /\ (backend.state \in {"QUEUED", "RUNNING"}
        /\ athena'.elapsed <= athena.maxExecutionTimeSeconds) =>
       pc' = "sleeping"

\* the tool returns what runAthenaSelect threw as EXECUTION_ERROR
ThrownIsExecutionError ==
  (entry = "funnel" /\ athena.outcome = "thrown") =>
    /\ pc = "done"
    /\ result = Failure("EXECUTION_ERROR", athena.message, athena.detail)

\* C26: provided every status request is answered, the polling loop of
\* runAthenaSelect ends: it goes on to fetch the results once the state is
\* SUCCEEDED, throws the backend's reason on FAILED or CANCELLED, and throws a
\* timeout once more than maxExecutionTimeSeconds have passed while the state
\* is not terminal; funnelDropAnalyzerTool returns what was thrown as
\* EXECUTION_ERROR
C26_PollingEnds ==
  /\ [][AnsweredTurn => TurnDecides]_vars
  /\ []ThrownIsExecutionError
  /\ Polling ~> (pc \in {"fetching", "done"})

\* the backend never left RUNNING: the tool returned the timeout after more
\* than 60 seconds
C26_Witness ==
  /\ entry = "funnel"
  /\ pc = "done"
  /\ backend.state = "RUNNING"
  /\ athena.elapsed > 60
  /\ result = Failure("EXECUTION_ERROR", "Query execution timeout", <<>>)

\* the data rows 1..n
FirstRows(n) == [i \in 1..n |-> i]

\* runAthenaSelect returned
AthenaReturnedRows == pc = "done" /\ athena.outcome = "returned"

\* C29: for every maxRows >= 1 and every paging of a result of N data rows,
\* runAthenaSelect returns exactly the first min(maxRows, N) data rows; rows
\* never holds more than maxRows rows and rowCount is rows.length
C29_ReturnsFirstRows ==
  /\ Len(athena.rows) <= athena.maxRows
  /\ AthenaReturnedRows =>
       /\ athena.rows = FirstRows(Min({athena.maxRows, backend.dataRows}))
       /\ entry = "funnel" => result.rowCount = Len(athena.rows)

\* what does hold: the rows returned are data rows in the order of the
\* result, at most maxRows, and rowCount is their number
C29_ReturnsRowsInOrder ==
  /\ Len(athena.rows) <= athena.maxRows
  /\ \A i \in 1..Len(athena.rows) :
       /\ athena.rows[i] \in 1..backend.dataRows
       /\ i > 1 => athena.rows[i - 1] < athena.rows[i]
  /\ (AthenaReturnedRows /\ entry = "funnel") => result.rowCount = Len(athena.rows)

\* maxRows is 1 and the result has a data row: the first page is the header
\* alone, the data row comes first on the second page and is skipped
C29_DroppedFirstRow ==
  /\ AthenaReturnedRows
  /\ athena.maxRows = 1
  /\ backend.dataRows >= 1
  /\ athena.rows = <<>>

\* the first page holds the header and the data rows: nothing is dropped
C29_AllRows ==
  /\ AthenaReturnedRows
  /\ athena.maxRows = 3
  /\ backend.dataRows = 4
  /\ athena.rows = <<1, 2, 3>>

====
